---------------------------- MODULE Spec2Model ----------------------------
(***************************************************************************)
(* A model of angr/analyses/decompiler/structurer.py: the per-region       *)
(* Structurer (acyclic structuring, loop extraction, condition             *)
(* translation) and the RecursiveStructurer that drives it.                *)
(*                                                                         *)
(* Conventions.                                                            *)
(*  - A claripy AST and an ailment expression are records                  *)
(*    [op, args, v, ail]: op is the operator name, args the operands, v    *)
(*    the payload of a leaf (a variable's number, a constant's value),     *)
(*    ail is TRUE for an ailment.Expr.Expression.                          *)
(*  - Python's None is the record NoneC, so that every field keeps one     *)
(*    shape.                                                               *)
(*  - SequenceNode objects live in a heap (a sequence of child lists); a   *)
(*    reference to a SequenceNode is its index in the heap.  This is       *)
(*    Python's object identity: the work queue _new_sequences holds        *)
(*    references to objects that sit somewhere inside the tree.            *)
(***************************************************************************)
EXTENDS Integers, Sequences, FiniteSets, TLC

VARIABLES
    pc,        \* position of the modelled run
    region,    \* Structurer._region: the input region (blocks and their transfers)
    order,     \* the order networkx.topological_sort gave to _make_sequence
    rcs,       \* Structurer._reaching_conditions
    condition_mapping,  \* Structurer._condition_mapping
    heap,      \* the SequenceNode objects; heap[1] is the sequence of _analyze_acyclic
    queue,     \* Structurer._new_sequences
    result,    \* Structurer.result: the SequenceNode (its reference), 0 before it is set
    seq_in,    \* the children of the SequenceNode handed to _make_ites
    ail_condition, \* the native expression handed to _bool_variable_from_ail_condition
    translated, \* what _bool_variable_from_ail_condition returned
    converted, \* what _convert_claripy_bool_ast returned for bool_var
    loop_node, \* the LoopNode handed to and returned by _refine_loop
    graphs,    \* RecursiveStructurer: for every region, the GraphRegion nodes of its graph
    stack,     \* RecursiveStructurer._analyze: stack
    parent_map,  \* RecursiveStructurer._analyze: parent_map (0: no entry)
    structured,  \* how many times each region was handed to the Structurer
    spliced,   \* the regions replace_region has replaced by their node
    frames,    \* the Structurer invocations waiting in _to_loop_body_sequence, outermost first
    parents,   \* Structurer._parent_map, as far as the region's successors in its parents go
    original_successors,  \* what the first _find_loop_nodes_and_successors returned
    loop_successors       \* successors of _analyze_cyclic

vars == <<pc, region, order, rcs, condition_mapping, heap, queue, result, seq_in,
          ail_condition, translated, converted, loop_node,
          graphs, stack, parent_map, structured, spliced,
          frames, parents, original_successors, loop_successors>>

\* the variables of the translation run
vars_translation == <<ail_condition, translated, converted>>
\* the variables of the RecursiveStructurer run
vars_recursive == <<graphs, stack, parent_map, structured, spliced>>
\* the variables of _analyze_cyclic
vars_cyclic == <<frames, parents, original_successors, loop_successors>>
\* the variables only the runs further down use
vars_rest == <<vars_recursive, vars_cyclic>>
\* parent_map=None; otherwise chain[k] holds the addresses of the successors
\* the region has in the graph of its k-th parent
NoParentMap == [given |-> FALSE, chain |-> <<>>]
ParentMap(chain) == [given |-> TRUE, chain |-> chain]
CyclicIdle ==
    /\ frames = <<>>
    /\ parents = NoParentMap
    /\ original_successors = <<>>
    /\ loop_successors = <<>>
\* their values in a run that does not use them
RestIdle ==
    /\ graphs = <<>>
    /\ stack = <<>>
    /\ parent_map = <<>>
    /\ structured = <<>>
    /\ spliced = {}
    /\ CyclicIdle
\* the variables a run of _analyze_acyclic leaves alone
outside_acyclic == <<seq_in, vars_translation, loop_node>>

-----------------------------------------------------------------------------
(* Bounds of the model *)

\* largest number of nodes of an acyclic region
MaxNodes == 5

-----------------------------------------------------------------------------
(***************************************************************************)
(* The condition algebra (claripy).  Construction applies claripy's        *)
(* construction-time simplifiers: constants are folded, a nested And/Or    *)
(* is flattened into its parent (duplicates dropped), a double negation    *)
(* cancels.  claripy.simplify is z3's simplifier; the code uses its result *)
(* only to ask whether an expression is the constant true (or false), and  *)
(* the model answers that question by truth table.                         *)
(***************************************************************************)

NoneC  == [op |-> "None",  args |-> <<>>, v |-> 0, ail |-> FALSE]
BTrue  == [op |-> "BoolV", args |-> <<>>, v |-> 1, ail |-> FALSE]
BFalse == [op |-> "BoolV", args |-> <<>>, v |-> 0, ail |-> FALSE]
BVar(i) == [op |-> "BoolS", args |-> <<>>, v |-> i, ail |-> FALSE]

Range(s) == {s[i] : i \in 1..Len(s)}

RECURSIVE Variables(_)
Variables(e) ==
    IF e.op = "BoolS" THEN {e.v}
    ELSE UNION {Variables(e.args[i]) : i \in 1..Len(e.args)}

RECURSIVE Eval(_, _)
Eval(e, asg) ==
    CASE e.op = "BoolV" -> e.v = 1
      [] e.op = "BoolS" -> e.v \in asg
      [] e.op = "Not"   -> ~Eval(e.args[1], asg)
      [] e.op = "And"   -> \A i \in 1..Len(e.args) : Eval(e.args[i], asg)
      [] e.op = "Or"    -> \E i \in 1..Len(e.args) : Eval(e.args[i], asg)

\* the atoms a truth table ranges over
Atoms == 1..MaxNodes

Equivalent(a, b) == \A asg \in SUBSET Atoms : Eval(a, asg) = Eval(b, asg)

\* claripy.is_true: the expression is the concrete value true
is_true(e) == e = BTrue
is_false(e) == e = BFalse

\* OrderedSet(args): the first occurrence of every operand, in order
RECURSIVE OrderedSet(_)
OrderedSet(s) ==
    IF s = <<>> THEN <<>>
    ELSE LET front == OrderedSet(SubSeq(s, 1, Len(s) - 1))
             last  == s[Len(s)]
         IN IF \E i \in 1..Len(front) : front[i] = last THEN front
            ELSE Append(front, last)

RECURSIVE Flatten(_, _)
Flatten(opname, s) ==
    IF s = <<>> THEN <<>>
    ELSE (IF Head(s).op = opname THEN Head(s).args ELSE <<Head(s)>>)
         \o Flatten(opname, Tail(s))

SelectNot(s, x) == SelectSeq(s, LAMBDA e : e # x)

\* claripy.Not: boolean_not_simplifier folds a constant, cancels a double
\* negation and swaps == and !=
claripy_Not(e) ==
    CASE e = BTrue  -> BFalse
      [] e = BFalse -> BTrue
      [] e.op = "Not" -> e.args[1]
      [] e.op = "__eq__" -> [op |-> "__ne__", args |-> e.args, v |-> 0, ail |-> FALSE]
      [] e.op = "__ne__" -> [op |-> "__eq__", args |-> e.args, v |-> 0, ail |-> FALSE]
      [] OTHER -> [op |-> "Not", args |-> <<e>>, v |-> 0, ail |-> FALSE]

\* claripy.And(*args): boolean_and_simplifier, then the flattening simplifier
RECURSIVE claripy_And(_)
claripy_And(s) ==
    IF Len(s) = 1 THEN s[1]
    ELSE IF \E i \in 1..Len(s) : is_false(s[i]) THEN BFalse
    ELSE LET new_args == SelectNot(s, BTrue) IN
         IF new_args = <<>> THEN BTrue
         ELSE IF Len(new_args) < Len(s) THEN claripy_And(new_args)
         ELSE IF \E i \in 1..Len(s) : s[i].op = "And"
              THEN [op |-> "And", args |-> OrderedSet(Flatten("And", s)), v |-> 0, ail |-> FALSE]
              ELSE [op |-> "And", args |-> s, v |-> 0, ail |-> FALSE]

\* claripy.Or(*args): boolean_or_simplifier, then the flattening simplifier
RECURSIVE claripy_Or(_)
claripy_Or(s) ==
    IF Len(s) = 1 THEN s[1]
    ELSE IF \E i \in 1..Len(s) : is_true(s[i]) THEN BTrue
    ELSE LET new_args == SelectNot(s, BFalse) IN
         IF new_args = <<>> THEN BFalse
         ELSE IF Len(new_args) < Len(s) THEN claripy_Or(new_args)
         ELSE IF \E i \in 1..Len(s) : s[i].op = "Or"
              THEN [op |-> "Or", args |-> OrderedSet(Flatten("Or", s)), v |-> 0, ail |-> FALSE]
              ELSE [op |-> "Or", args |-> s, v |-> 0, ail |-> FALSE]

\* Structurer._revert_short_circuit_conditions:  !A || (A && !B)  ==>  !(A && B)
revert_short_circuit_conditions(cond) ==
    IF cond.op # "Or" THEN cond
    ELSE
      LET a0 == cond.args[1]
          a1 == cond.args[2]
          swap == a1.op # "And" /\ a0.op = "And"
          or_arg0 == IF swap THEN a1 ELSE a0
          or_arg1 == IF swap THEN a0 ELSE a1
          not_a == or_arg0
          \* solver.add(not_a == x); not solver.satisfiable()
          never_equal(x) == \A asg \in SUBSET Atoms : Eval(not_a, asg) # Eval(x, asg)
          rewrite(not_b) ==
              LET b == claripy_Not(not_b)
                  a == claripy_Not(not_a)
                  r == claripy_Not(claripy_And(<<a, b>>))
              IN IF Len(cond.args) <= 2 THEN r
                 ELSE claripy_Or(<<r>> \o SubSeq(cond.args, 3, Len(cond.args)))
      IN IF a1.op # "And" /\ a0.op # "And" THEN cond
         ELSE IF Variables(not_a) = Variables(or_arg1.args[1])
              THEN (IF never_equal(or_arg1.args[1]) THEN rewrite(or_arg1.args[2]) ELSE cond)
         ELSE IF Variables(not_a) = Variables(or_arg1.args[2])
              THEN (IF never_equal(or_arg1.args[2]) THEN rewrite(or_arg1.args[1]) ELSE cond)
         ELSE cond

\* Structurer._simplify_condition
simplify_condition(cond) ==
    IF \A asg \in SUBSET Atoms : Eval(cond, asg) THEN BTrue
    ELSE IF \A asg \in SUBSET Atoms : ~Eval(cond, asg) THEN BFalse
    ELSE revert_short_circuit_conditions(cond)

-----------------------------------------------------------------------------
(***************************************************************************)
(* Native (ailment) statements and the nodes of a region graph.            *)
(***************************************************************************)

\* an address outside the region
OutAddr == MaxNodes + 1

\* ailment expressions: a 1-bit Convert of a register is the usual branch condition
AilConvert1(i) == [op |-> "Convert", args |-> <<>>, v |-> i, ail |-> TRUE]

\* the trailing statement of a block
NoStmt == [kind |-> "none", c |-> NoneC, t |-> 0, f |-> 0]
Jump(target) == [kind |-> "Jump", c |-> NoneC, t |-> target, f |-> 0]
ConditionalJump(c, true_target, false_target) ==
    [kind |-> "ConditionalJump", c |-> c, t |-> true_target, f |-> false_target]

\* A node: an ailment.Block (stmts statements before its trailing transfer
\* last), a BreakNode, a ConditionalBreakNode, a LoopNode, or a reference to a
\* SequenceNode of the heap (id).
NodeRec(k, addr, stmts, last, cond, tgt, id, sort) ==
    [k |-> k, addr |-> addr, stmts |-> stmts, last |-> last, cond |-> cond,
     tgt |-> tgt, id |-> id, sort |-> sort]
NoNode == NodeRec("None", 0, 0, NoStmt, NoneC, 0, 0, "")
Block(addr, stmts, last) == NodeRec("Block", addr, stmts, last, NoneC, 0, 0, "")
BreakNode(addr, target) == NodeRec("BreakNode", addr, 0, NoStmt, NoneC, target, 0, "")
ConditionalBreakNode(addr, condition, target) ==
    NodeRec("ConditionalBreakNode", addr, 0, NoStmt, condition, target, 0, "")
SequenceRef(id) == NodeRec("SequenceNode", 0, 0, NoStmt, NoneC, 0, id, "")
LoopNode(sort, condition, id, addr) ==
    NodeRec("LoopNode", addr, 0, NoStmt, condition, 0, id, sort)

\* A child of a SequenceNode: a node as it is (Raw), a CodeNode, or a
\* ConditionNode whose true_node is CodeNode(node, trc) and whose false_node
\* is CodeNode(fnode, frc) or None (fnode = NoNode).
ItemRec(ty, node, rc, cond, trc, fnode, frc, addr) ==
    [ty |-> ty, node |-> node, rc |-> rc, cond |-> cond, trc |-> trc,
     fnode |-> fnode, frc |-> frc, addr |-> addr]
Raw(node) == ItemRec("Raw", node, NoneC, NoneC, NoneC, NoNode, NoneC, node.addr)
CodeNode(node, reaching_condition) ==
    ItemRec("CodeNode", node, reaching_condition, NoneC, NoneC, NoNode, NoneC, node.addr)
\* ConditionNode(addr, None, condition, true_node, false_node), both branches CodeNodes
ConditionNode(addr, condition, true_node, false_node) ==
    ItemRec("ConditionNode", true_node.node, NoneC, condition, true_node.rc,
            false_node.node, false_node.rc, addr)
NoCode == CodeNode(NoNode, NoneC)

-----------------------------------------------------------------------------
(***************************************************************************)
(* Region graphs (networkx.DiGraph): the nodes and the edges in insertion  *)
(* order; an edge is a pair of node positions.  head is the position of    *)
(* the region's head, 0 when the head object is not a node of the graph.   *)
(***************************************************************************)

Graph(nodes, edges, head) == [nodes |-> nodes, edges |-> edges, head |-> head]

\* graph.successors(i) / graph.predecessors(i), in insertion order
successors(G, i) ==
    LET es == SelectSeq(G.edges, LAMBDA e : e[1] = i)
    IN [k \in 1..Len(es) |-> es[k][2]]
predecessors(G, i) ==
    LET es == SelectSeq(G.edges, LAMBDA e : e[2] = i)
    IN [k \in 1..Len(es) |-> es[k][1]]

NodeIds(G) == 1..Len(G.nodes)
EdgeSet(G) == Range(G.edges)

RECURSIVE ReachableFrom(_, _)
ReachableFrom(G, S) ==
    LET T == S \cup {e[2] : e \in {x \in EdgeSet(G) : x[1] \in S}}
    IN IF T = S THEN S ELSE ReachableFrom(G, T)

\* networkx.is_directed_acyclic_graph
is_directed_acyclic_graph(G) ==
    \A i \in NodeIds(G) :
        i \notin ReachableFrom(G, {e[2] : e \in {x \in EdgeSet(G) : x[1] = i}})

\* Structurer._has_cycle
has_cycle(G) == ~is_directed_acyclic_graph(G)

\* the position of the node with address a, 0 when there is none
NodeAt(G, a) ==
    IF \E i \in NodeIds(G) : G.nodes[i].addr = a
    THEN CHOOSE i \in NodeIds(G) : G.nodes[i].addr = a
    ELSE 0

Perms(S) ==
    {p \in [1..Cardinality(S) -> S] : \A i, j \in 1..Cardinality(S) : p[i] = p[j] => i = j}

\* networkx.topological_sort (networkx 2.x): Kahn's algorithm with a stack of
\* the nodes of in-degree zero.  The children that reach in-degree zero are
\* pushed in the order of the node's adjacency, which is the order the edges
\* were inserted in: every order of pushing them is an order some insertion
\* order gives, so the operator yields the set of results.
RECURSIVE kahn(_, _, _)
kahn(G, zero_indegree, indeg) ==
    IF zero_indegree = <<>> THEN {<<>>}
    ELSE LET node == zero_indegree[Len(zero_indegree)]
             rest == SubSeq(zero_indegree, 1, Len(zero_indegree) - 1)
             ch == Range(successors(G, node))
             indeg2 == [v \in NodeIds(G) |-> indeg[v] - (IF v \in ch THEN 1 ELSE 0)]
             zero == {v \in ch : indeg2[v] = 0}
         IN UNION {{<<node>> \o o : o \in kahn(G, rest \o p, indeg2)} : p \in Perms(zero)}

SetToSeq(S) == CHOOSE p \in Perms(S) : \A i, j \in 1..Cardinality(S) : i < j => p[i] < p[j]

topological_sort(G) ==
    LET indeg == [v \in NodeIds(G) |-> Cardinality({e \in EdgeSet(G) : e[2] = v})]
    IN kahn(G, SetToSeq({v \in NodeIds(G) : indeg[v] = 0}), indeg)

-----------------------------------------------------------------------------
(***************************************************************************)
(* Condition translation.                                                  *)
(*                                                                         *)
(* Native leaves: Load, Register, Convert (v is the leaf's number; a       *)
(* Convert is a conversion to 1 bit, a ConvertBV one to another width),    *)
(* Const and Tmp.  A claripy variable carries the name the code builds     *)
(* from the leaf (kind and number); a variable made with an explicit name  *)
(* is the same variable wherever that name is made again.                  *)
(***************************************************************************)

Ail(op, args, v) == [op |-> op, args |-> args, v |-> v, ail |-> TRUE]
Ast(op, args, v) == [op |-> op, args |-> args, v |-> v, ail |-> FALSE]
NotImplementedError == [op |-> "NotImplementedError", args |-> <<>>, v |-> 0, ail |-> FALSE]
AttributeError == [op |-> "AttributeError", args |-> <<>>, v |-> 0, ail |-> FALSE]
IndexError == [op |-> "IndexError", args |-> <<>>, v |-> 0, ail |-> FALSE]
IsError(e) == e.op \in {"NotImplementedError", "AttributeError", "IndexError"}

\* the operators of _bool_variable_from_ail_condition._mapping and the
\* claripy operation each one builds
ForwardOps ==
    {"LogicalAnd", "LogicalOr", "CmpEQ", "CmpLE", "CmpLT", "Add", "Sub", "Not",
     "Xor", "And", "Shr"}

\* the name of the variable of a leaf: "ailexpr_<repr>" and the like
VarName(c) ==
    CASE c.op = "Load"      -> 10 + c.v
      [] c.op = "Register"  -> 20 + c.v
      [] c.op = "ConvertBV" -> 30 + c.v
      [] c.op = "Tmp"       -> 40 + c.v
      [] c.op = "Tmp1"      -> 50 + c.v
      [] OTHER              -> c.v

\* a == b on bitvectors and on booleans: identical operands fold to true
claripy_eq(a, b) == IF a = b THEN BTrue ELSE Ast("__eq__", <<a, b>>, 0)

\* claripy.BVS(name, size) without explicit_name: the name ends in the next
\* value of claripy's variable counter
FreshName(c, serial) == 100 * (serial + 1) + VarName(c)

\* the name of the variable of a Convert: "ailcond_Conv(.., <repr of the
\* translated operand>)"; a Convert without operand stands for one over an
\* operand that holds no Tmp, numbered v
ConvName(c, operand) == IF c.args = <<>> THEN VarName(c) ELSE 1000 + operand.v

Translation(var, entries, serial) == [var |-> var, entries |-> entries, serial |-> serial]

\* the claripy operation _mapping[condition.op] builds of the translated
\* operands a and b
forward_op(condition, a, b) ==
    CASE condition.op = "LogicalAnd" -> claripy_And(<<a, b>>)
      [] condition.op = "LogicalOr" -> claripy_Or(<<a, b>>)
      [] condition.op = "CmpEQ" -> claripy_eq(a, b)
      [] condition.op = "CmpLE" -> Ast("__le__", <<a, b>>, 0)
      [] condition.op = "CmpLT" -> Ast("__lt__", <<a, b>>, 0)
      [] condition.op = "Add" -> Ast("__add__", <<a, b>>, 0)
      [] condition.op = "Sub" -> Ast("__sub__", <<a, b>>, 0)
      [] condition.op = "Xor" -> Ast("__xor__", <<a, b>>, 0)
      [] condition.op = "And" -> Ast("__and__", <<a, b>>, 0)

\* a call with one operand translated, first, and its result made of var
one_operand(condition, first, var) ==
    IF IsError(first.var) THEN first
    ELSE Translation(var, first.entries, first.serial)

\* Structurer._bool_variable_from_ail_condition with claripy's variable
\* counter at serial: the value of the call (an exception is a value:
\* NotImplementedError, AttributeError), the entries it adds to
\* _condition_mapping in the order the calls add them, up to the call that
\* raises, and the counter after it.  Tmp1 is a Tmp of one bit.
RECURSIVE translate_condition(_, _)
translate_condition(condition, serial) ==
    CASE condition.op \in {"Load", "Register", "ConvertBV"} ->
            Translation(Ast("BVS", <<>>, VarName(condition)),
                        <<[var |-> Ast("BVS", <<>>, VarName(condition)), expr |-> condition]>>,
                        serial)
      [] condition.op = "Convert" /\ condition.args = <<>> ->
            Translation(Ast("BoolS", <<>>, VarName(condition)),
                        <<[var |-> Ast("BoolS", <<>>, VarName(condition)), expr |-> condition]>>,
                        serial)
      [] condition.op = "Convert" /\ condition.args # <<>> ->
            \* no test of the operand's translation: an exception leaves the call
            (LET first == translate_condition(condition.args[1], serial)
                 var == Ast("BoolS", <<>>, ConvName(condition, first.var))
             IN IF IsError(first.var) THEN first
                ELSE Translation(var,
                                 Append(first.entries, [var |-> var, expr |-> condition]),
                                 first.serial))
      [] condition.op = "Const" -> Translation(Ast("BVV", <<>>, condition.v), <<>>, serial)
      \* claripy.BoolV('ailtmp_%d'): a concrete value, not a symbol
      [] condition.op = "Tmp1" ->
            Translation(Ast("BoolV", <<>>, VarName(condition)),
                        <<[var |-> Ast("BoolV", <<>>, VarName(condition)), expr |-> condition]>>,
                        serial)
      \* claripy.BVS('ailtmp_%d', bits): no explicit_name
      [] condition.op = "Tmp" ->
            Translation(Ast("BVS", <<>>, FreshName(condition, serial)),
                        <<[var |-> Ast("BVS", <<>>, FreshName(condition, serial)),
                           expr |-> condition]>>,
                        serial + 1)
      [] condition.op = "Not" ->
            (LET first == translate_condition(condition.args[1], serial)
             IN one_operand(condition, first, claripy_Not(first.var)))
      \* claripy.LShR(conv(operands[0]), operands[1].value): only a Const has a value
      [] condition.op = "Shr" ->
            (LET first == translate_condition(condition.args[1], serial)
             IN one_operand(condition, first,
                    IF condition.args[2].op # "Const" THEN AttributeError
                    ELSE Ast("LShR", <<first.var, Ast("BVV", <<>>, condition.args[2].v)>>, 0)))
      [] condition.op \in ForwardOps \ {"Not", "Shr"} ->
            (LET first == translate_condition(condition.args[1], serial)
             IN IF IsError(first.var) THEN first
                ELSE LET second == translate_condition(condition.args[2], first.serial)
                     IN IF IsError(second.var)
                        THEN Translation(second.var, first.entries \o second.entries,
                                         second.serial)
                        ELSE Translation(forward_op(condition, first.var, second.var),
                                         first.entries \o second.entries, second.serial))
      [] OTHER -> Translation(NotImplementedError, <<>>, serial)

\* the value of claripy's variable counter, as far as the variables of
\* mapping tell: every variable made of it is the key of an entry of its own
var_counter(mapping) ==
    Cardinality({i \in 1..Len(mapping) : mapping[i].expr.op = "Tmp"})

\* the value of the call on a condition that holds no Tmp of more than one
\* bit, for which the counter is not read
bool_variable_from_ail_condition(condition) == translate_condition(condition, 0).var

\* the entries that call adds to _condition_mapping
mapping_entries(condition) == translate_condition(condition, 0).entries

\* dict update: the entries of more replace or extend those of mapping
RECURSIVE update_mapping(_, _)
update_mapping(mapping, more) ==
    IF more = <<>> THEN mapping
    ELSE LET e == Head(more)
             kept == SelectSeq(mapping, LAMBDA x : x.var # e.var)
         IN update_mapping(Append(kept, e), Tail(more))

in_mapping(mapping, cond) == \E i \in 1..Len(mapping) : mapping[i].var = cond
lookup(mapping, cond) ==
    mapping[CHOOSE i \in 1..Len(mapping) : mapping[i].var = cond].expr

\* the native operator _convert_claripy_bool_ast._mapping gives for a claripy
\* operation; "" when the operation has no entry
ReverseOp(op) ==
    CASE op = "ULE"     -> "CmpULE"
      [] op = "__le__"  -> "CmpLE"
      [] op = "__lt__"  -> "CmpLT"
      [] op = "UGT"     -> "CmpUGT"
      [] op = "__gt__"  -> "CmpGT"
      [] op = "__eq__"  -> "CmpEQ"
      [] op = "__ne__"  -> "CmpNE"
      [] op = "__add__" -> "Add"
      [] op = "__xor__" -> "Xor"
      [] op = "__and__" -> "And"
      [] op = "LShR"    -> "Shr"
      [] OTHER          -> ""

\* Structurer._convert_claripy_bool_ast
RECURSIVE convert_claripy_bool_ast(_, _)
convert_claripy_bool_ast(mapping, cond) ==
    LET conv(k) == convert_claripy_bool_ast(mapping, cond.args[k])
        bin(opname) ==
            IF IsError(conv(1)) THEN conv(1)
            ELSE IF IsError(conv(2)) THEN conv(2)
            ELSE Ail(opname, <<conv(1), conv(2)>>, 0)
    IN IF cond.ail THEN cond
       ELSE IF cond.op = "BoolS" /\ is_true(cond) THEN cond
       ELSE IF in_mapping(mapping, cond) THEN lookup(mapping, cond)
       ELSE CASE cond.op = "Not" ->
                    IF IsError(conv(1)) THEN conv(1)
                    ELSE Ail("Not", <<conv(1)>>, 0)
              \* args[0] and args[1] are read, whatever the number of operands
              [] cond.op = "And" ->
                    IF Len(cond.args) < 2 THEN IndexError ELSE bin("LogicalAnd")
              [] cond.op = "Or" ->
                    IF Len(cond.args) < 2 THEN IndexError ELSE bin("LogicalOr")
              [] ReverseOp(cond.op) # "" -> bin(ReverseOp(cond.op))
              [] cond.op = "BVV" -> Ail("Const", <<>>, cond.v)
              [] cond.op = "BoolV" -> Ail("Const", <<>>, cond.v)
              [] OTHER -> NotImplementedError

-----------------------------------------------------------------------------
(***************************************************************************)
(* Reaching-condition recovery                                             *)
(***************************************************************************)

\* Structurer._extract_predicate
extract_predicate(src_block, dst_block) ==
    IF src_block.k = "ConditionalBreakNode"
    THEN (IF src_block.tgt = dst_block.addr THEN src_block.cond
          ELSE claripy_Not(src_block.cond))
    ELSE IF src_block.k = "Block" /\ src_block.last.kind = "ConditionalJump"
    THEN LET bool_var == bool_variable_from_ail_condition(src_block.last.c)
         IN IF src_block.last.t = dst_block.addr THEN bool_var
            ELSE claripy_Not(bool_var)
    ELSE BTrue

\* the body of the loop over preds of _recover_reaching_conditions
RECURSIVE fold_preds(_, _, _, _, _)
fold_preds(G, conds, node, preds, reaching_condition) ==
    IF preds = <<>> THEN reaching_condition
    ELSE LET pred == Head(preds)
             pred_condition == IF conds[pred] = NoneC THEN BTrue ELSE conds[pred]
             edge_condition == extract_predicate(G.nodes[pred], G.nodes[node])
             term == claripy_And(<<pred_condition, edge_condition>>)
         IN fold_preds(G, conds, node, Tail(preds),
                       IF reaching_condition = NoneC THEN term
                       ELSE claripy_Or(<<term, reaching_condition>>))

\* one node of _recover_reaching_conditions
reaching_condition_of(G, conds, node) ==
    LET reaching_condition ==
            IF node = G.head THEN BTrue
            ELSE fold_preds(G, conds, node, predecessors(G, node), NoneC)
    IN IF reaching_condition # NoneC THEN simplify_condition(reaching_condition)
       ELSE NoneC

\* the nodes a path of at least one edge leads to from v
Descendants(G, v) == ReachableFrom(G, {e[2] : e \in {x \in EdgeSet(G) : x[1] = v}})

\* the loop over CFGUtils.quasi_topological_sort_nodes: every node after its
\* predecessors; the nodes of a strongly connected component come together,
\* after the components that lead to it, a node with a visited predecessor
\* first
RECURSIVE visit_in_order(_, _, _)
visit_in_order(G, conds, todo) ==
    IF todo = {} THEN conds
    ELSE LET ready == {v \in todo : \A e \in EdgeSet(G) : e[2] = v => e[1] \notin todo}
             first_component ==
                 {v \in todo : \A w \in todo :
                     v \in Descendants(G, w) => w \in Descendants(G, v)}
             entered == {v \in first_component :
                            \E e \in EdgeSet(G) : e[2] = v /\ e[1] \notin todo}
             candidates == IF ready # {} THEN ready
                           ELSE IF entered # {} THEN entered
                           ELSE first_component
             node == CHOOSE v \in candidates : \A w \in candidates : v <= w
         IN visit_in_order(G,
                [conds EXCEPT ![node] = reaching_condition_of(G, conds, node)],
                todo \ {node})

\* Structurer._recover_reaching_conditions: node -> condition (NoneC: no entry)
recover_reaching_conditions(G) ==
    visit_in_order(G, [v \in NodeIds(G) |-> NoneC], NodeIds(G))

\* the entries _recover_reaching_conditions adds to _condition_mapping
RECURSIVE recovered_mapping(_, _, _)
recovered_mapping(G, mapping, k) ==
    IF k > Len(G.nodes) THEN mapping
    ELSE recovered_mapping(G,
            IF G.nodes[k].k = "Block" /\ G.nodes[k].last.kind = "ConditionalJump"
               /\ successors(G, k) # <<>>
            THEN update_mapping(mapping, mapping_entries(G.nodes[k].last.c))
            ELSE mapping,
            k + 1)

-----------------------------------------------------------------------------
(***************************************************************************)
(* Acyclic structuring.  The operators work on S = [heap, queue]: the      *)
(* SequenceNode objects and _new_sequences.                                *)
(***************************************************************************)

\* seq.nodes of the SequenceNode sid, and its replacement
Nodes(h, sid) == h[sid]
SetNodes(h, sid, nodes) == [h EXCEPT ![sid] = nodes]
\* SequenceNode(nodes=...): a new object
NewSeq(h, nodes) == Append(h, nodes)

\* the addr of a child: CodeNode.addr is the addr of its node, SequenceNode.addr
\* the addr of its first child (0, None, without children), LoopNode.addr
\* that of its sequence_node unless the loop was given one
RECURSIVE addr_of(_, _)
addr_of(h, item) ==
    IF item.ty = "ConditionNode" THEN item.addr
    ELSE IF item.node.k = "SequenceNode" \/ (item.node.k = "LoopNode" /\ item.node.addr = 0)
    THEN (IF Nodes(h, item.node.id) = <<>> THEN 0
          ELSE addr_of(h, Nodes(h, item.node.id)[1]))
    ELSE item.node.addr

\* Structurer._make_sequence
make_sequence(G, conds, sorted_nodes) ==
    [k \in 1..Len(sorted_nodes) |->
        CodeNode(G.nodes[sorted_nodes[k]], conds[sorted_nodes[k]])]

\* the children a node contributes to a merged SequenceNode
nodes_of(h, node) ==
    IF node.k = "SequenceNode" THEN Nodes(h, node.id) ELSE <<Raw(node)>>

\* Structurer._merge_nodes: the children of the new SequenceNode
merge_nodes(h, node_0, node_1) == nodes_of(h, node_0) \o nodes_of(h, node_1)

\* Structurer._merge_same_conditioned_nodes, from position i on
RECURSIVE merge_same_conditioned_nodes_from(_, _, _)
merge_same_conditioned_nodes_from(h, sid, i) ==
    IF i >= Len(Nodes(h, sid)) THEN h
    ELSE LET node_0 == Nodes(h, sid)[i]
             node_1 == Nodes(h, sid)[i + 1]
         IN IF node_0.ty # "CodeNode" \/ node_0.rc = NoneC \/ node_1.rc = NoneC
            THEN merge_same_conditioned_nodes_from(h, sid, i + 1)
            ELSE IF Equivalent(node_0.rc, node_1.rc)
            THEN LET h1 == NewSeq(h, merge_nodes(h, node_0.node, node_1.node))
                     new_node == CodeNode(SequenceRef(Len(h1)), node_0.rc)
                     nodes == Nodes(h, sid)
                 IN merge_same_conditioned_nodes_from(
                        SetNodes(h1, sid, SubSeq(nodes, 1, i - 1) \o <<new_node>>
                                          \o SubSeq(nodes, i + 2, Len(nodes))),
                        sid, i)
            ELSE merge_same_conditioned_nodes_from(h, sid, i + 1)

merge_same_conditioned_nodes(h, sid) == merge_same_conditioned_nodes_from(h, sid, 1)

\* Structurer._get_reaching_condition_subexprs, as the list the callers make
\* of it.  For an Or the code yields the subexpressions of the first operand:
\* set.intersection returns a new set and leaves `left` as it was.
RECURSIVE subexprs_queue(_)
subexprs_queue(q) ==
    IF q = <<>> THEN <<>>
    ELSE LET ast == Head(q) IN
         IF ast.op = "And"
         THEN <<ast.args[1]>> \o subexprs_queue(Tail(q) \o Tail(ast.args))
         ELSE IF ast.op = "Or"
         THEN OrderedSet(subexprs_queue(<<ast.args[1]>>)) \o subexprs_queue(Tail(q))
         ELSE <<ast>> \o subexprs_queue(Tail(q))

get_reaching_condition_subexprs(claripy_ast) == subexprs_queue(<<claripy_ast>>)

\* Structurer._nodes_guarded_by_common_subexpr: the candidates (idx, node, subexprs)
RECURSIVE nodes_guarded_from(_, _, _)
nodes_guarded_from(nodes, common_subexpr, j) ==
    IF j > Len(nodes) THEN <<>>
    ELSE LET node_1 == nodes[j]
             subexprs_1 == get_reaching_condition_subexprs(node_1.rc)
         IN (IF node_1.rc # NoneC /\ \E k \in 1..Len(subexprs_1) : subexprs_1[k] = common_subexpr
             THEN <<[idx |-> j, node |-> node_1, subexprs |-> subexprs_1]>>
             ELSE <<>>)
            \o nodes_guarded_from(nodes, common_subexpr, j + 1)

nodes_guarded_by_common_subexpr(nodes, common_subexpr, starting_idx) ==
    IF common_subexpr = BTrue THEN <<>>
    ELSE nodes_guarded_from(nodes, common_subexpr, starting_idx)

\* children that keep the whole condition of the candidates, the common
\* subexpression included
unfactored_children(common_subexpr, candidates) ==
    [k \in 1..Len(candidates) |->
        CodeNode(candidates[k].node.node, claripy_And(candidates[k].subexprs))]

\* Structurer._create_seq_node_guarded_by_common_subexpr: the children of the
\* new SequenceNode
guarded_children(common_subexpr, candidates) ==
    [k \in 1..Len(candidates) |->
        CodeNode(candidates[k].node.node,
                 claripy_And(SelectNot(candidates[k].subexprs, common_subexpr)))]

\* seq.nodes with the positions of idxs erased and, when pos > 0, new_node
\* inserted before position pos
RECURSIVE erase_and_insert(_, _, _, _, _)
erase_and_insert(nodes, idxs, pos, new_node, k) ==
    IF k > Len(nodes) THEN (IF pos = k THEN <<new_node>> ELSE <<>>)
    ELSE (IF pos = k THEN <<new_node>> ELSE <<>>)
         \o (IF k \in idxs THEN <<>> ELSE <<nodes[k]>>)
         \o erase_and_insert(nodes, idxs, pos, new_node, k + 1)

Max(a, b) == IF a >= b THEN a ELSE b

\* Structurer._make_ite, for the children at positions node_0_pos and node_1_pos
make_ite(S, sid, node_0_pos, node_1_pos) ==
    LET nodes == Nodes(S.heap, sid)
        node_0 == nodes[node_0_pos]
        node_1 == nodes[node_1_pos]
        pos == Max(node_0_pos, node_1_pos)
        node_0_ == CodeNode(node_0.node, NoneC)
        node_1_ == CodeNode(node_1.node, NoneC)
        node_0_kids ==
            <<[idx |-> node_0_pos, node |-> node_0_, subexprs |-> <<node_0.rc>>]>>
            \o nodes_guarded_by_common_subexpr(nodes, node_0.rc, node_0_pos + 1)
        node_1_kids ==
            <<[idx |-> node_1_pos, node |-> node_1_, subexprs |-> <<node_1.rc>>]>>
            \o nodes_guarded_by_common_subexpr(nodes, node_1.rc, node_1_pos + 1)
        h1 == NewSeq(S.heap, guarded_children(node_0.rc, node_0_kids))
        new_node_0 == CodeNode(SequenceRef(Len(h1)), node_0.rc)
        h2 == NewSeq(h1, guarded_children(node_1.rc, node_1_kids))
        new_node_1 == CodeNode(SequenceRef(Len(h2)), node_1.rc)
        idxs == {node_0_kids[k].idx : k \in 1..Len(node_0_kids)}
                \cup {node_1_kids[k].idx : k \in 1..Len(node_1_kids)}
    IN [heap |-> SetNodes(h2, sid,
                    erase_and_insert(nodes, idxs, pos,
                        ConditionNode(0, node_0.rc, new_node_0, new_node_1), 1)),
        queue |-> S.queue \o <<Len(h1), Len(h2)>>]

\* the pairs (node_0, node_1) the search of _make_ites accepts
ite_pair(nodes, i, j) ==
    /\ nodes[i].ty = "CodeNode"
    /\ nodes[i].rc # NoneC
    /\ ~is_true(nodes[i].rc)
    /\ nodes[j].ty = "CodeNode"
    /\ i # j
    /\ nodes[j].rc # NoneC
    /\ Equivalent(claripy_Not(nodes[i].rc), nodes[j].rc)

\* Structurer._make_ites
RECURSIVE make_ites(_, _)
make_ites(S, sid) ==
    LET nodes == Nodes(S.heap, sid)
        n == Len(nodes)
        found == {p \in (1..n) \X (1..n) : ite_pair(nodes, p[1], p[2])}
    IN IF found = {} THEN S
       ELSE LET first == CHOOSE p \in found :
                            \A q \in found : p[1] < q[1] \/ (p[1] = q[1] /\ p[2] <= q[2])
            IN make_ites(make_ite(S, sid, first[1], first[2]), sid)

\* Structurer._structure_common_subexpression_conditions, from position i on
RECURSIVE structure_common_subexpression_conditions_from(_, _, _)
structure_common_subexpression_conditions_from(S, sid, i) ==
    LET nodes == Nodes(S.heap, sid) IN
    IF i >= Len(nodes) THEN S
    ELSE LET node_0 == nodes[i]
             subexprs_0 == get_reaching_condition_subexprs(node_0.rc)
             cands(k) == nodes_guarded_by_common_subexpr(nodes, subexprs_0[k], i + 1)
             hits == {k \in 1..Len(subexprs_0) : cands(k) # <<>>}
         IN IF node_0.rc = NoneC \/ hits = {}
            THEN structure_common_subexpression_conditions_from(S, sid, i + 1)
            ELSE LET k == CHOOSE x \in hits : \A y \in hits : x <= y
                     common_subexpr == subexprs_0[k]
                     candidates ==
                         <<[idx |-> i, node |-> node_0, subexprs |-> subexprs_0]>> \o cands(k)
                     h1 == NewSeq(S.heap, guarded_children(common_subexpr, candidates))
                     new_node == CodeNode(SequenceRef(Len(h1)), common_subexpr)
                     idxs == {candidates[c].idx : c \in 1..Len(candidates)}
                 IN structure_common_subexpression_conditions_from(
                        [heap |-> SetNodes(h1, sid,
                                     erase_and_insert(nodes, idxs, i, new_node, 1)),
                         queue |-> Append(S.queue, Len(h1))],
                        sid, i)

structure_common_subexpression_conditions(S, sid) ==
    structure_common_subexpression_conditions_from(S, sid, 1)

\* Structurer._structure_sequence
structure_sequence(S, sid) ==
    structure_common_subexpression_conditions(
        make_ites([S EXCEPT !.heap = merge_same_conditioned_nodes(S.heap, sid)], sid),
        sid)

\* the SequenceNodes of the tree under sid that _make_condition_nodes visits:
\* sid and the SequenceNodes wrapped in a CodeNode child, recursively
RECURSIVE condition_node_scope(_, _)
condition_node_scope(h, sid) ==
    {sid} \cup UNION {condition_node_scope(h, Nodes(h, sid)[i].node.id) :
                        i \in {j \in 1..Len(Nodes(h, sid)) :
                                  /\ Nodes(h, sid)[j].ty = "CodeNode"
                                  /\ Nodes(h, sid)[j].node.k = "SequenceNode"}}

\* the body of the loop of _make_condition_nodes for one child
make_condition_node(h, node) ==
    IF node.ty = "CodeNode" /\ node.rc # NoneC /\ ~is_true(node.rc)
    THEN IF node.node.k = "ConditionalBreakNode"
         THEN CodeNode(ConditionalBreakNode(node.node.addr,
                            claripy_And(<<node.rc, node.node.cond>>), node.node.tgt),
                       NoneC)
         ELSE ConditionNode(addr_of(h, node), node.rc, node, NoCode)
    ELSE node

\* Structurer._make_condition_nodes
make_condition_nodes(h, sid) ==
    LET scope == condition_node_scope(h, sid)
    IN [s \in 1..Len(h) |->
          IF s \in scope
          THEN [i \in 1..Len(h[s]) |-> make_condition_node(h, h[s][i])]
          ELSE h[s]]

\* the node under a CodeNode, or the child itself
unwrap(item) == IF item.ty = "CodeNode" THEN Raw(item.node) ELSE item

\* the loop of _merge_conditional_breaks over seq.nodes; nested SequenceNodes
\* are rebuilt by the caller
RECURSIVE merge_conditional_breaks_loop(_, _, _)
merge_conditional_breaks_loop(nodes, i, new_nodes) ==
    IF i > Len(nodes) THEN new_nodes
    ELSE LET node == unwrap(nodes[i])
             prev_node == unwrap(nodes[i - 1])
             found == /\ node.ty = "Raw"
                      /\ node.node.k = "ConditionalBreakNode"
                      /\ i > 1
                      /\ prev_node.ty = "Raw"
                      /\ prev_node.node.k = "ConditionalBreakNode"
             merged_condition ==
                 simplify_condition(claripy_Or(<<node.node.cond, prev_node.node.cond>>))
         IN merge_conditional_breaks_loop(nodes, i + 1,
               IF found
               THEN Append(SubSeq(new_nodes, 1, Len(new_nodes) - 1),
                           Raw(ConditionalBreakNode(node.node.addr, merged_condition,
                                                    node.node.tgt)))
               ELSE Append(new_nodes, node))

\* the SequenceNodes _merge_conditional_breaks rebuilds: sid and the
\* SequenceNodes that are children of one of them, bare or under a CodeNode
RECURSIVE break_merge_scope(_, _)
break_merge_scope(h, sid) ==
    {sid} \cup UNION {break_merge_scope(h, Nodes(h, sid)[i].node.id) :
                        i \in {j \in 1..Len(Nodes(h, sid)) :
                                  /\ Nodes(h, sid)[j].ty \in {"CodeNode", "Raw"}
                                  /\ Nodes(h, sid)[j].node.k = "SequenceNode"}}

\* Structurer._merge_conditional_breaks: the new SequenceNodes take the places
\* of the ones they are built from
merge_conditional_breaks(h, sid) ==
    LET scope == break_merge_scope(h, sid)
    IN [s \in 1..Len(h) |->
          IF s \in scope THEN merge_conditional_breaks_loop(h[s], 1, <<>>) ELSE h[s]]

\* the conversion of one condition of a node; None stays None
convert_or_none(mapping, cond) ==
    IF cond = NoneC THEN NoneC ELSE convert_claripy_bool_ast(mapping, cond)

\* Structurer._remove_claripy_bool_asts on one child of a SequenceNode
remove_claripy_bool_asts_item(mapping, item) ==
    CASE item.ty = "CodeNode" ->
            [item EXCEPT !.rc = convert_or_none(mapping, item.rc),
                         !.node = IF item.node.k = "ConditionalBreakNode"
                                  THEN [item.node EXCEPT !.cond =
                                           convert_claripy_bool_ast(mapping, item.node.cond)]
                                  ELSE item.node]
      [] item.ty = "Raw" ->
            IF item.node.k = "ConditionalBreakNode"
            THEN [item EXCEPT !.node.cond = convert_claripy_bool_ast(mapping, item.node.cond)]
            ELSE item
      [] item.ty = "ConditionNode" ->
            [item EXCEPT !.cond = convert_claripy_bool_ast(mapping, item.cond),
                         !.trc = convert_or_none(mapping, item.trc),
                         !.frc = convert_or_none(mapping, item.frc)]

\* Structurer._remove_claripy_bool_asts: every SequenceNode of the tree is
\* rebuilt with its conditions converted
remove_claripy_bool_asts(mapping, h) ==
    [s \in 1..Len(h) |->
        [i \in 1..Len(h[s]) |-> remove_claripy_bool_asts_item(mapping, h[s][i])]]

-----------------------------------------------------------------------------
(***************************************************************************)
(* The acyclic run: Structurer._analyze_acyclic on a region of blocks.     *)
(* Block i has address i; its conditional transfer tests the 1-bit         *)
(* conversion number i; a target is a later block or an address outside.   *)
(***************************************************************************)

\* the trailing statements block i of a region of n blocks can have
Transfers(i, n) ==
    LET targets == (i + 1..n) \cup {OutAddr}
    IN {NoStmt} \cup {Jump(t) : t \in i + 1..n}
       \cup {ConditionalJump(AilConvert1(i), p[1], p[2]) :
                 p \in {q \in targets \X targets : q[1] # q[2]}}

\* the edges block i contributes: true target first
edges_of(i, n, stmt) ==
    (IF stmt.kind # "none" /\ stmt.t \in 1..n THEN <<<<i, stmt.t>>>> ELSE <<>>)
    \o (IF stmt.kind = "ConditionalJump" /\ stmt.f \in 1..n THEN <<<<i, stmt.f>>>> ELSE <<>>)

RECURSIVE all_edges(_, _)
all_edges(trs, i) ==
    IF i > Len(trs) THEN <<>>
    ELSE edges_of(i, Len(trs), trs[i]) \o all_edges(trs, i + 1)

\* GraphRegion(head, graph) of blocks with the transfers trs
RegionOf(trs) ==
    Graph([i \in 1..Len(trs) |-> Block(i, 1, trs[i])], all_edges(trs, 1), 1)

RECURSIVE TransferSeqs(_, _)
TransferSeqs(i, n) ==
    IF i > n THEN {<<>>}
    ELSE {<<t>> \o rest : t \in Transfers(i, n), rest \in TransferSeqs(i + 1, n)}

\* the single-entry regions of up to MaxNodes blocks
AcyclicRegions ==
    {G \in {RegionOf(trs) : trs \in UNION {TransferSeqs(1, n) : n \in 1..MaxNodes}} :
        ReachableFrom(G, {G.head}) = NodeIds(G)}

InitAcyclic ==
    /\ pc = "start"
    /\ RestIdle
    /\ region \in AcyclicRegions
    /\ order = <<>>
    /\ rcs = <<>>
    /\ condition_mapping = <<>>
    /\ heap = <<>>
    /\ queue = <<>>
    /\ result = 0
    /\ seq_in = <<>>
    /\ ail_condition = NoneC
    /\ translated = NoneC
    /\ converted = NoneC
    /\ loop_node = NoNode

\* self._recover_reaching_conditions()
RecoverReachingConditions ==
    /\ pc = "start"
    /\ ~has_cycle(region)
    /\ rcs' = recover_reaching_conditions(region)
    /\ condition_mapping' = recovered_mapping(region, condition_mapping, 1)
    /\ pc' = "recovered"
    /\ UNCHANGED <<region, order, heap, queue, result>>
    /\ UNCHANGED outside_acyclic
    /\ UNCHANGED vars_rest

\* seq = self._make_sequence(); self._new_sequences.append(seq)
MakeSequence ==
    /\ pc = "recovered"
    /\ \E o \in topological_sort(region) :
          /\ order' = o
          /\ heap' = NewSeq(heap, make_sequence(region, rcs, o))
    /\ queue' = Append(queue, 1)
    /\ pc' = "structuring"
    /\ UNCHANGED <<region, rcs, condition_mapping, result>>
    /\ UNCHANGED outside_acyclic
    /\ UNCHANGED vars_rest

\* one round of the loop: seq_ = self._new_sequences.pop(0); self._structure_sequence(seq_)
StructureSequence ==
    /\ pc = "structuring"
    /\ queue # <<>>
    /\ LET S == structure_sequence([heap |-> heap, queue |-> Tail(queue)], Head(queue))
       IN /\ heap' = S.heap
          /\ queue' = S.queue
    /\ UNCHANGED <<pc, region, order, rcs, condition_mapping, result>>
    /\ UNCHANGED outside_acyclic
    /\ UNCHANGED vars_rest

\* self._make_condition_nodes(seq)
MakeConditionNodes ==
    /\ pc = "structuring"
    /\ queue = <<>>
    /\ heap' = make_condition_nodes(heap, 1)
    /\ pc' = "conditioned"
    /\ UNCHANGED <<region, order, rcs, condition_mapping, queue, result>>
    /\ UNCHANGED outside_acyclic
    /\ UNCHANGED vars_rest

\* seq = self._merge_conditional_breaks(seq)
MergeConditionalBreaks ==
    /\ pc = "conditioned"
    /\ heap' = merge_conditional_breaks(heap, 1)
    /\ pc' = "merged"
    /\ UNCHANGED <<region, order, rcs, condition_mapping, queue, result>>
    /\ UNCHANGED outside_acyclic
    /\ UNCHANGED vars_rest

\* seq = self._remove_claripy_bool_asts(seq); self.result = seq
RemoveClaripyBoolAsts ==
    /\ pc = "merged"
    /\ heap' = remove_claripy_bool_asts(condition_mapping, heap)
    /\ result' = 1
    /\ pc' = "done"
    /\ UNCHANGED <<region, order, rcs, condition_mapping, queue>>
    /\ UNCHANGED outside_acyclic
    /\ UNCHANGED vars_rest

NextAcyclic ==
    \/ RecoverReachingConditions
    \/ MakeSequence
    \/ StructureSequence
    \/ MakeConditionNodes
    \/ MergeConditionalBreaks
    \/ RemoveClaripyBoolAsts

SpecAcyclic == InitAcyclic /\ [][NextAcyclic]_vars

-----------------------------------------------------------------------------
(***************************************************************************)
(* Properties of the acyclic run                                           *)
(***************************************************************************)

\* the nodes some path from the head reaches along edges whose condition is
\* true under the assignment asg
PathReachable(G, asg) ==
    LET open == SelectSeq(G.edges,
                    LAMBDA e : Eval(extract_predicate(G.nodes[e[1]], G.nodes[e[2]]), asg))
    IN ReachableFrom(Graph(G.nodes, open, G.head), {G.head})

\* the addresses of the blocks of a tree, left to right
RECURSIVE flatten_node(_, _)
RECURSIVE flatten_seq(_, _, _)
flatten_node(h, node) ==
    CASE node.k = "SequenceNode" -> flatten_seq(h, Nodes(h, node.id), 1)
      [] node.k = "LoopNode" -> flatten_seq(h, Nodes(h, node.id), 1)
      [] node.k = "None" -> <<>>
      [] OTHER -> <<node.addr>>
flatten_seq(h, nodes, i) ==
    IF i > Len(nodes) THEN <<>>
    ELSE flatten_node(h, nodes[i].node)
         \o (IF nodes[i].ty = "ConditionNode" THEN flatten_node(h, nodes[i].fnode) ELSE <<>>)
         \o flatten_seq(h, nodes, i + 1)

\* the output of the run, flattened
Output == flatten_seq(heap, Nodes(heap, result), 1)
PositionIn(s, a) == CHOOSE i \in 1..Len(s) : s[i] = a

\* C4: after reaching-condition recovery on an acyclic region the head's
\* reaching condition is true, and under every assignment of the branch
\* conditions a node's reaching condition is true exactly when some path from
\* the head to the node has all its edge conditions true.
C4_ReachingConditionIsPathCondition ==
    pc # "start" =>
        /\ rcs[region.head] = BTrue
        /\ \A n \in NodeIds(region) : \A asg \in SUBSET Atoms :
               Eval(rcs[n], asg) <=> n \in PathReachable(region, asg)

\* C5: after acyclic structuring, for every edge u -> v of the region graph,
\* u comes before v in the left-to-right flattening of the output.
C5_OutputKeepsControlFlowOrder ==
    pc = "done" =>
        \A e \in EdgeSet(region) :
            PositionIn(Output, e[1]) < PositionIn(Output, e[2])

\* every block of the region is in the output exactly once
OutputHoldsEveryBlock ==
    pc = "done" =>
        /\ Len(Output) = Len(region.nodes)
        /\ Range(Output) = NodeIds(region)

\* the diamond region: A = 1 branches on X to B = 2 (true arm) and C = 3
\* (false arm), both continue to D = 4
Diamond ==
    RegionOf(<<ConditionalJump(AilConvert1(1), 2, 3), Jump(4), Jump(4), NoStmt>>)

\* a child of a SequenceNode that no condition guards
Unguarded(item) ==
    \/ item.ty = "Raw"
    \/ item.ty = "CodeNode" /\ item.rc \in {NoneC, BTrue, Ail("Const", <<>>, 1)}

\* C1: acyclic structuring of the diamond region, for either topological
\* order of B and C: the reaching condition of D is true and the output holds
\* one Condition node with condition X, B in its true branch and C in its
\* false branch, followed by D unguarded.
C1_DiamondIsIfElseThenJoin ==
    (region = Diamond /\ pc = "done") =>
        /\ rcs[4] = BTrue
        /\ LET out == Nodes(heap, result)
               conds == {i \in 1..Len(out) : out[i].ty = "ConditionNode"}
           IN /\ Cardinality(conds) = 1
              /\ \A i \in conds :
                    /\ out[i].cond = AilConvert1(1)
                    /\ flatten_node(heap, out[i].node) = <<2>>
                    /\ flatten_node(heap, out[i].fnode) = <<3>>
                    /\ i + 1 = Len(out)
                    /\ Unguarded(out[i + 1])
                    /\ flatten_node(heap, out[i + 1].node) = <<4>>

\* the diamond region has been structured from the order A, B, C, D
C1_DiamondStructured ==
    region = Diamond /\ pc = "done" /\ order = <<1, 2, 3, 4>>

-----------------------------------------------------------------------------
(***************************************************************************)
(* If/else synthesis on its own: _make_ites applied to a SequenceNode of   *)
(* two or three Code children whose reaching conditions are drawn from a   *)
(* pool over two branch conditions.                                        *)
(***************************************************************************)

\* largest number of children of the SequenceNode
MaxChildren == 3

\* the reaching conditions of the children
ConditionPool ==
    {BTrue, BVar(1), claripy_Not(BVar(1)), BVar(2),
     claripy_And(<<BVar(1), BVar(2)>>),
     claripy_Not(claripy_And(<<BVar(1), BVar(2)>>)),
     claripy_Or(<<claripy_Not(BVar(1)), claripy_Not(BVar(2))>>)}

RECURSIVE ChildLists(_, _)
ChildLists(i, n) ==
    IF i > n THEN {<<>>}
    ELSE {<<CodeNode(Block(i, 1, NoStmt), c)>> \o rest :
             c \in ConditionPool, rest \in ChildLists(i + 1, n)}

\* the region of a run that has none
NoRegion == Graph(<<>>, <<>>, 0)

InitItes ==
    /\ pc = "start"
    /\ RestIdle
    /\ seq_in \in UNION {ChildLists(1, n) : n \in 2..MaxChildren}
    /\ heap = <<seq_in>>
    /\ queue = <<>>
    /\ region = NoRegion
    /\ order = <<>>
    /\ rcs = <<>>
    /\ condition_mapping = <<>>
    /\ result = 0
    /\ ail_condition = NoneC
    /\ translated = NoneC
    /\ converted = NoneC
    /\ loop_node = NoNode

\* self._make_ites(seq)
MakeItes ==
    /\ pc = "start"
    /\ LET S == make_ites([heap |-> heap, queue |-> queue], 1)
       IN /\ heap' = S.heap
          /\ queue' = S.queue
    /\ pc' = "ites_made"
    /\ UNCHANGED <<region, order, rcs, condition_mapping, result, seq_in>>
    /\ UNCHANGED <<vars_translation, loop_node>>
    /\ UNCHANGED vars_rest

NextItes == MakeItes

SpecItes == InitItes /\ [][NextItes]_vars

\* the Condition nodes of a SequenceNode: condition, blocks of the true
\* branch, blocks of the false branch
ConditionNodesOf(h, sid) ==
    {[condition |-> Nodes(h, sid)[i].cond,
      true_node |-> flatten_node(h, Nodes(h, sid)[i].node),
      false_node |-> flatten_node(h, Nodes(h, sid)[i].fnode)] :
        i \in {j \in 1..Len(Nodes(h, sid)) : Nodes(h, sid)[j].ty = "ConditionNode"}}

\* two Code children whose reaching conditions are complements
ComplementPair(nodes) ==
    /\ Len(nodes) = 2
    /\ ~is_true(nodes[1].rc)
    /\ ~is_true(nodes[2].rc)
    /\ Equivalent(claripy_Not(nodes[1].rc), nodes[2].rc)

\* C9: if/else synthesis is order-independent: for two Code children with
\* complementary reaching conditions the Condition node produced (condition,
\* true branch, false branch) is the one produced when the two children come
\* in the other order.
C9_ItesOrderIndependent ==
    (pc = "ites_made" /\ ComplementPair(seq_in)) =>
        ConditionNodesOf(heap, 1) =
            ConditionNodesOf(
                make_ites([heap |-> <<<<seq_in[2], seq_in[1]>>>>, queue |-> <<>>], 1).heap, 1)

\* a complement pair has been made into a Condition node
C9_PairStructured ==
    /\ pc = "ites_made"
    /\ ComplementPair(seq_in)
    /\ ConditionNodesOf(heap, 1) # {}

-----------------------------------------------------------------------------
(***************************************************************************)
(* Condition translation on its own: a native expression is translated to  *)
(* claripy and back.  The expressions are well typed: arithmetic over      *)
(* registers, a load and a constant; comparisons of those; the logical     *)
(* connectives over comparisons.                                           *)
(***************************************************************************)

\* number of registers among the leaves
MaxRegs == 2

Leaves ==
    {Ail("Register", <<>>, r) : r \in 1..MaxRegs} \cup {Ail("Const", <<>>, 1)}
Arithmetic ==
    {Ail(op, <<a, b>>, 0) : op \in {"Add", "Sub", "Xor", "And", "Shr"}, a \in Leaves, b \in Leaves}
Comparisons(operands) ==
    {Ail(op, <<a, b>>, 0) : op \in {"CmpEQ", "CmpLE", "CmpLT"}, a \in operands, b \in Leaves}
Connectives(operands) ==
    {Ail("Not", <<a>>, 0) : a \in operands}
    \cup {Ail(op, <<a, b>>, 0) : op \in {"LogicalAnd", "LogicalOr"}, a \in operands, b \in operands}

\* the comparisons the connectives are built over
SimpleComparisons == Comparisons({Ail("Register", <<>>, 1)})

NativeExpressions ==
    Leaves \cup Arithmetic \cup Comparisons(Leaves \cup Arithmetic)
    \cup Connectives(SimpleComparisons)
    \cup {Ail("LogicalAnd", <<Ail("LogicalAnd", <<a, b>>, 0), c>>, 0) :
              a \in SimpleComparisons, b \in SimpleComparisons, c \in SimpleComparisons}

InitTranslation ==
    /\ pc = "start"
    /\ RestIdle
    /\ ail_condition \in NativeExpressions
    /\ translated = NoneC
    /\ converted = NoneC
    /\ loop_node = NoNode
    /\ condition_mapping = <<>>
    /\ region = NoRegion
    /\ order = <<>>
    /\ rcs = <<>>
    /\ heap = <<>>
    /\ queue = <<>>
    /\ result = 0
    /\ seq_in = <<>>

\* self._bool_variable_from_ail_condition(condition)
ForwardTranslation ==
    /\ pc = "start"
    /\ translated' = bool_variable_from_ail_condition(ail_condition)
    /\ condition_mapping' = update_mapping(condition_mapping, mapping_entries(ail_condition))
    /\ pc' = IF IsError(translated') THEN "raised" ELSE "forward"
    /\ UNCHANGED <<region, order, rcs, heap, queue, result, seq_in, ail_condition, converted,
                   loop_node>>
    /\ UNCHANGED vars_rest

\* self._convert_claripy_bool_ast(cond) on the translation
ReverseTranslation ==
    /\ pc = "forward"
    /\ converted' = convert_claripy_bool_ast(condition_mapping, translated)
    /\ pc' = IF IsError(converted') THEN "raised" ELSE "converted"
    /\ UNCHANGED <<region, order, rcs, condition_mapping, heap, queue, result, seq_in,
                   ail_condition, translated, loop_node>>
    /\ UNCHANGED vars_rest

NextTranslation == ForwardTranslation \/ ReverseTranslation

SpecTranslation == InitTranslation /\ [][NextTranslation]_vars

\* the operator kinds of the forward translation only
RECURSIVE OnlyForwardOps(_)
OnlyForwardOps(e) ==
    /\ e.op \in ForwardOps \cup {"Register", "Const"}
    /\ \A i \in 1..Len(e.args) : OnlyForwardOps(e.args[i])

\* C10: for every native expression built from the operators of the forward
\* translation over mapped leaves and constants, forward translation followed
\* by reverse translation succeeds and yields an expression with the same
\* operator structure.
C10_TranslationRoundTrip ==
    OnlyForwardOps(ail_condition) =>
        /\ pc # "raised"
        /\ pc = "converted" => converted = ail_condition

\* a round trip that gives the expression back
C10_RoundTripDone ==
    /\ pc = "converted"
    /\ converted = ail_condition
    /\ ail_condition.op = "CmpLT"

-----------------------------------------------------------------------------
(***************************************************************************)
(* Loop-shape refinement.  A LoopNode's _addr of 0 is None; the addr of a  *)
(* SequenceNode is the addr of its first child, 0 (None) when it has none. *)
(***************************************************************************)

\* SequenceNode.addr
seq_addr(h, sid) == IF Nodes(h, sid) = <<>> THEN 0 ELSE addr_of(h, Nodes(h, sid)[1])

\* LoopNode.addr
loop_addr(h, loop) == IF loop.addr = 0 THEN seq_addr(h, loop.id) ELSE loop.addr

\* Structurer._negate_cond
negate_cond(cond) ==
    IF cond.ail /\ cond.op = "Not" THEN cond.args[1] ELSE Ail("Not", <<cond>>, 0)

\* what a refinement step returns: r, the loop node, the heap, and the
\* exception it raised ("" when none)
Refined(r, loop, h, raised) == [r |-> r, loop |-> loop, heap |-> h, raised |-> raised]

\* Structurer._refine_loop_while
refine_loop_while(h, loop) ==
    IF loop.sort = "while" /\ loop.cond = NoneC
    THEN LET nodes == Nodes(h, loop.id) IN
         IF nodes = <<>> THEN Refined(FALSE, loop, h, "IndexError")
         ELSE LET first_node == unwrap(nodes[1]) IN
              IF first_node.ty = "Raw" /\ first_node.node.k = "ConditionalBreakNode"
              THEN LET while_cond == negate_cond(first_node.node.cond)
                       h1 == NewSeq(h, Tail(nodes))
                   IN Refined(TRUE,
                              LoopNode("while", while_cond, Len(h1), loop_addr(h, loop)),
                              h1, "")
              ELSE Refined(FALSE, loop, h, "")
    ELSE Refined(FALSE, loop, h, "")

\* Structurer._refine_loop_dowhile
refine_loop_dowhile(h, loop) ==
    IF loop.sort = "while" /\ loop.cond = NoneC
    THEN LET nodes == Nodes(h, loop.id) IN
         IF nodes = <<>> THEN Refined(FALSE, loop, h, "IndexError")
         ELSE LET last_node == nodes[Len(nodes)] IN
              IF last_node.ty = "Raw" /\ last_node.node.k = "ConditionalBreakNode"
              THEN LET while_cond == negate_cond(last_node.node.cond)
                       h1 == NewSeq(h, SubSeq(nodes, 1, Len(nodes) - 1))
                   IN Refined(TRUE, LoopNode("do-while", while_cond, Len(h1), 0), h1, "")
              ELSE Refined(FALSE, loop, h, "")
    ELSE Refined(FALSE, loop, h, "")

\* Structurer._refine_loop
RECURSIVE refine_loop(_, _)
refine_loop(h, loop) ==
    LET w == refine_loop_while(h, loop) IN
    IF w.raised # "" THEN w
    ELSE IF w.r THEN refine_loop(w.heap, w.loop)
    ELSE LET d == refine_loop_dowhile(w.heap, w.loop) IN
         IF d.raised # "" THEN d
         ELSE IF d.r THEN refine_loop(d.heap, d.loop)
         ELSE d

\* largest number of children of a loop body
MaxBody == 3

\* the children a loop body can have at position i; a break's condition is
\* native by the time the loop is refined
BodyChildren(i) ==
    {Raw(Block(i, 1, NoStmt)),
     CodeNode(Block(i, 1, NoStmt), NoneC),
     Raw(ConditionalBreakNode(i, AilConvert1(i), OutAddr)),
     Raw(ConditionalBreakNode(i, Ail("Not", <<AilConvert1(i)>>, 0), OutAddr)),
     CodeNode(ConditionalBreakNode(i, AilConvert1(i), OutAddr), NoneC),
     Raw(BreakNode(i, OutAddr))}

RECURSIVE Bodies(_, _)
Bodies(i, n) ==
    IF i > n THEN {<<>>}
    ELSE {<<c>> \o rest : c \in BodyChildren(i), rest \in Bodies(i + 1, n)}

InitRefine ==
    /\ pc = "start"
    /\ RestIdle
    /\ seq_in \in UNION {Bodies(1, n) : n \in 0..MaxBody}
    /\ heap = <<seq_in>>
    \* LoopNode('while', None, loop_body, addr=loop_head.addr)
    /\ loop_node = LoopNode("while", NoneC, 1, 1)
    /\ queue = <<>>
    /\ region = NoRegion
    /\ order = <<>>
    /\ rcs = <<>>
    /\ condition_mapping = <<>>
    /\ result = 0
    /\ ail_condition = NoneC
    /\ translated = NoneC
    /\ converted = NoneC

\* loop_node = self._refine_loop(loop_node)
RefineLoop ==
    /\ pc = "start"
    /\ LET res == refine_loop(heap, loop_node)
       IN /\ loop_node' = res.loop
          /\ heap' = res.heap
          /\ pc' = IF res.raised # "" THEN "raised" ELSE "refined"
    /\ UNCHANGED <<region, order, rcs, condition_mapping, queue, result, seq_in>>
    /\ UNCHANGED vars_translation
    /\ UNCHANGED vars_rest

NextRefine == RefineLoop

SpecRefine == InitRefine /\ [][NextRefine]_vars

\* a ConditionalBreak, bare or wrapped in a Code node
IsConditionalBreak(item) ==
    item.ty \in {"Raw", "CodeNode"} /\ item.node.k = "ConditionalBreakNode"

\* r is the negation of the condition x
IsNegationOf(r, x) == r = Ail("Not", <<x>>, 0) \/ x = Ail("Not", <<r>>, 0)

\* C3: shape refinement of an endless loop: a body whose first statement is a
\* ConditionalBreak on X (bare or in a Code node) gives a while loop on not X
\* without that break; otherwise a body whose last statement is a
\* ConditionalBreak on Y (bare or in a Code node) gives a do-while loop on
\* not Y without that break; otherwise the loop stays endless, its body
\* unchanged.
C3_RefineLoopShapes ==
    pc = "refined" =>
        LET n == Len(seq_in)
            body == Nodes(heap, loop_node.id)
        IN IF IsConditionalBreak(seq_in[1])
           THEN /\ loop_node.sort = "while"
                /\ IsNegationOf(loop_node.cond, seq_in[1].node.cond)
                /\ body = Tail(seq_in)
           ELSE IF IsConditionalBreak(seq_in[n])
           THEN /\ loop_node.sort = "do-while"
                /\ IsNegationOf(loop_node.cond, seq_in[n].node.cond)
                /\ body = SubSeq(seq_in, 1, n - 1)
           ELSE /\ loop_node.sort = "while"
                /\ loop_node.cond = NoneC
                /\ body = seq_in

\* a loop has been refined into a do-while loop
C3_DoWhileMade ==
    pc = "refined" /\ loop_node.sort = "do-while" /\ Len(seq_in) = MaxBody

-----------------------------------------------------------------------------
(***************************************************************************)
(* RecursiveStructurer._analyze on a tree of nested regions.  Region 1 is  *)
(* the root; region.parent[r] is the region whose graph holds r as a node, *)
(* region.reachable[r] tells whether that node is reachable from the head  *)
(* of the parent's graph.  graphs[r] is the set of GraphRegion nodes in    *)
(* the graph of r.  The per-region Structurer is a call that returns a     *)
(* node or raises.                                                         *)
(***************************************************************************)

\* largest number of regions of a tree
MaxRegions == 4

RECURSIVE ParentLists(_, _)
ParentLists(r, n) ==
    IF r > n THEN {<<>>}
    ELSE {<<q>> \o rest : q \in (IF r = 1 THEN {0} ELSE 1..r - 1),
                          rest \in ParentLists(r + 1, n)}

RegionTrees ==
    UNION {{[parent |-> ps, reachable |-> [r \in 1..n |-> r = 1 \/ r \in reached]] :
               ps \in ParentLists(1, n), reached \in SUBSET (2..n)} : n \in 1..MaxRegions}

\* the replacement of pop_last that forgets to pop
pop_nothing(s) == s

\* stack.pop()
pop_last(s) == SubSeq(s, 1, Len(s) - 1)

\* the GraphRegion nodes dfs_postorder_nodes(current_region.graph,
\* current_region.head) yields
nested_regions(gs, tree, current_region) ==
    {node \in gs[current_region] : tree.reachable[node]}

\* GraphRegion.replace_region(sub_region, node): the node takes the place of
\* sub_region in the graph of parent_region
replace_region(gs, parent_region, sub_region) ==
    [gs EXCEPT ![parent_region] = @ \ {sub_region}]

InitRecursive ==
    /\ pc = "running"
    /\ region \in RegionTrees
    \* region = self._region.recursive_copy(); parent_map = {}; stack = [region]
    /\ graphs = [r \in 1..Len(region.parent) |->
                    {c \in 1..Len(region.parent) : region.parent[c] = r}]
    /\ stack = <<1>>
    /\ parent_map = [r \in 1..Len(region.parent) |-> 0]
    /\ structured = [r \in 1..Len(region.parent) |-> 0]
    /\ spliced = {}
    /\ CyclicIdle
    /\ result = 0
    /\ order = <<>>
    /\ rcs = <<>>
    /\ condition_mapping = <<>>
    /\ heap = <<>>
    /\ queue = <<>>
    /\ seq_in = <<>>
    /\ ail_condition = NoneC
    /\ translated = NoneC
    /\ converted = NoneC
    /\ loop_node = NoNode

\* a round of the loop that finds nested regions: they are pushed and their
\* parent recorded
PushNestedRegions ==
    /\ pc = "running"
    /\ stack # <<>>
    /\ LET current_region == stack[Len(stack)]
           found == nested_regions(graphs, region, current_region)
       IN /\ found # {}
          /\ \E postorder \in Perms(found) : stack' = stack \o postorder
          /\ parent_map' = [r \in DOMAIN parent_map |->
                               IF r \in found THEN current_region ELSE parent_map[r]]
    /\ UNCHANGED <<pc, graphs, structured, spliced, result>>
    /\ UNCHANGED <<region, order, rcs, condition_mapping, heap, queue, seq_in, loop_node>>
    /\ UNCHANGED vars_translation
    /\ UNCHANGED vars_cyclic

\* a round of the loop that finds none: the region is popped and structured;
\* its node replaces it in the parent, or is the result
StructureRegion ==
    /\ pc = "running"
    /\ stack # <<>>
    /\ LET current_region == stack[Len(stack)]
           parent_region == parent_map[current_region]
       IN /\ nested_regions(graphs, region, current_region) = {}
          /\ stack' = pop_last(stack)
          /\ structured' = [structured EXCEPT ![current_region] = @ + 1]
          /\ \E raises \in BOOLEAN :
                IF raises
                THEN pc' = "raised" /\ UNCHANGED <<graphs, spliced, result>>
                ELSE IF parent_region = 0
                THEN pc' = "done" /\ result' = current_region
                     /\ UNCHANGED <<graphs, spliced>>
                ELSE /\ graphs' = replace_region(graphs, parent_region, current_region)
                     /\ spliced' = spliced \cup {current_region}
                     /\ UNCHANGED <<pc, result>>
    /\ UNCHANGED parent_map
    /\ UNCHANGED <<region, order, rcs, condition_mapping, heap, queue, seq_in, loop_node>>
    /\ UNCHANGED vars_translation
    /\ UNCHANGED vars_cyclic

NextRecursive == PushNestedRegions \/ StructureRegion

SpecRecursive == InitRecursive /\ [][NextRecursive]_vars

\* the regions the traversal can reach from the root
RECURSIVE ReachableRegion(_, _)
ReachableRegion(tree, r) ==
    r = 1 \/ (tree.reachable[r] /\ ReachableRegion(tree, tree.parent[r]))

-----------------------------------------------------------------------------
(***************************************************************************)
(* Loop extraction: Structurer._analyze_cyclic.                            *)
(*                                                                         *)
(* A node of a region graph is known by its position in G.nodes.  A        *)
(* successor of the loop is a record [pos, addr]: pos is its position in   *)
(* the region's own graph, 0 for a node of a parent's graph.  An exception *)
(* is the name in the field raised of what an operator returns ("" when    *)
(* none is raised).                                                        *)
(***************************************************************************)

\* ins_addr of the trailing transfer of a block: the block's own address when
\* the transfer is its only statement, a later address otherwise
ins_addr(block) == IF block.stmts = 0 THEN block.addr ELSE block.addr + 10

\* the address of the synthetic successor: Const(None, None, -1, bits)
SentinelAddr == 0 - 1

Returned(raised, stmt) == [raised |-> raised, stmt |-> stmt]

\* Structurer._get_last_statement; None and a statement that is no transfer
\* are both NoStmt
RECURSIVE get_last_statement(_, _)
get_last_statement(h, block) ==
    CASE block.k = "SequenceNode" ->
            LET nodes == Nodes(h, block.id) IN
            IF nodes = <<>> THEN Returned("", NoStmt)
            ELSE LET last == nodes[Len(nodes)] IN
                 IF last.ty = "ConditionNode" THEN Returned("", NoStmt)
                 ELSE get_last_statement(h, last.node)
      [] block.k = "Block" ->
            IF block.last.kind # "none" THEN Returned("", block.last)
            ELSE IF block.stmts = 0 THEN Returned("EmptyBlockNotice", NoStmt)
            ELSE Returned("", NoStmt)
      [] block.k = "LoopNode" -> get_last_statement(h, SequenceRef(block.id))
      [] block.k \in {"ConditionalBreakNode", "ConditionNode"} -> Returned("", NoStmt)
      [] OTHER -> Returned("NotImplementedError", NoStmt)

\* node.statements = node.statements[:-1] on an ailment.Block
without_last_statement(block) ==
    IF block.last.kind # "none" THEN [block EXCEPT !.last = NoStmt]
    ELSE [block EXCEPT !.stmts = @ - 1]

\* Structurer._remove_last_statement on the SequenceNode sid
RECURSIVE remove_last_statement(_, _)
remove_last_statement(h, sid) ==
    LET nodes == Nodes(h, sid) IN
    IF nodes = <<>> THEN [raised |-> "", heap |-> h]
    ELSE LET last == nodes[Len(nodes)] IN
         IF last.ty = "ConditionNode" THEN [raised |-> "NotImplementedError", heap |-> h]
         ELSE IF last.node.k = "SequenceNode" THEN remove_last_statement(h, last.node.id)
         ELSE IF last.node.k = "Block"
         THEN [raised |-> "",
               heap |-> SetNodes(h, sid,
                   [nodes EXCEPT ![Len(nodes)].node = without_last_statement(last.node)])]
         ELSE [raised |-> "NotImplementedError", heap |-> h]

\* Structurer._extract_jump_targets
extract_jump_targets(stmt) ==
    IF stmt.kind = "Jump" THEN <<stmt.t>>
    ELSE IF stmt.kind = "ConditionalJump" THEN <<stmt.t, stmt.f>>
    ELSE <<>>

\* SequenceNode._test_empty_node
test_empty_node(node) ==
    /\ node.k = "Block"
    /\ node.stmts = 0
    /\ node.last.kind \in {"none", "ConditionalJump"}

\* SequenceNode._test_empty_condition_node
test_empty_condition_node(cond_node) ==
    /\ test_empty_node(cond_node.node)
    /\ cond_node.fnode = NoNode \/ test_empty_node(cond_node.fnode)

\* SequenceNode.remove_empty_node
remove_empty_node(h, sid) ==
    SetNodes(h, sid,
        SelectSeq(Nodes(h, sid),
                  LAMBDA node : ~(IF node.ty = "ConditionNode"
                                  THEN test_empty_condition_node(node)
                                  ELSE test_empty_node(node.node))))

\* the component of networkx.strongly_connected_components that holds v
strongly_connected_component(G, v) ==
    {w \in NodeIds(G) : w = v \/ (w \in Descendants(G, v) /\ v \in Descendants(G, w))}

\* the component of the head taken as the loop, with no growth
no_extension(G, loop_nodes) == loop_nodes

\* the loop "extend loop nodes" of _find_loop_nodes_and_successors
RECURSIVE extend_loop_nodes(_, _)
extend_loop_nodes(G, loop_nodes) ==
    LET found == {succ \in NodeIds(G) \ loop_nodes :
                     /\ \E e \in EdgeSet(G) : e[1] \in loop_nodes /\ e[2] = succ
                     /\ \A e \in EdgeSet(G) : e[2] = succ => e[1] \in loop_nodes}
    IN IF found = {} THEN loop_nodes
       ELSE extend_loop_nodes(G,
                loop_nodes \cup {CHOOSE v \in found : \A w \in found : v <= w})

\* networkx.bfs_successors: the pairs <<node, child>> of the breadth-first tree
RECURSIVE bfs_successors(_, _, _, _)
bfs_successors(G, todo, visited, tree) ==
    IF todo = <<>> THEN tree
    ELSE LET node == Head(todo)
             children == SelectSeq(successors(G, node), LAMBDA v : v \notin visited)
         IN bfs_successors(G, Tail(todo) \o children, visited \cup Range(children),
                           tree \cup {<<node, children[k]>> : k \in 1..Len(children)})

Successor(pos, addr) == [pos |-> pos, addr |-> addr]

\* Case B: the successors of the region in the graph of the nearest parent
\* that gives it any
RECURSIVE parent_successors(_)
parent_successors(chain) ==
    IF chain = <<>> THEN {}
    ELSE IF Head(chain) # {} THEN Head(chain)
    ELSE parent_successors(Tail(chain))

\* Case A: the children, outside the loop, that networkx.bfs_successors
\* gives for a node with the address of a loop node
successors_in_region(G, loop_nodes, tree) ==
    {x[2] : x \in {y \in tree :
                      /\ \E v \in loop_nodes : G.nodes[v].addr = G.nodes[y[1]].addr
                      /\ y[2] \notin loop_nodes}}

\* the successors of the loop, found in the region (case_a) or in a parent
loop_successors_of(G, the_parent_map, loop_nodes, case_a) ==
    IF case_a # {}
    THEN [raised |-> "", loop_nodes |-> loop_nodes,
          successors |-> {Successor(v, G.nodes[v].addr) : v \in case_a}]
    \* self._parent_map.get on None
    ELSE IF ~the_parent_map.given
    THEN [raised |-> "AttributeError", loop_nodes |-> loop_nodes, successors |-> {}]
    ELSE [raised |-> "", loop_nodes |-> loop_nodes,
          successors |-> {Successor(0, a) : a \in parent_successors(the_parent_map.chain)}]

\* "find loop nodes and successors" for the loop nodes found
successors_of_loop_nodes(G, the_parent_map, loop_nodes) ==
    loop_successors_of(G, the_parent_map, loop_nodes,
        successors_in_region(G, loop_nodes,
                             bfs_successors(G, <<G.head>>, {G.head}, {})))

\* Structurer._find_loop_nodes_and_successors; the head of a region is in no
\* component when it is not a node of the graph
find_loop_nodes_and_successors(G, the_parent_map) ==
    IF G.head = 0
    THEN [raised |-> "TypeError", loop_nodes |-> {}, successors |-> {}]
    ELSE successors_of_loop_nodes(G, the_parent_map,
            extend_loop_nodes(G, strongly_connected_component(G, G.head)))

\* the synthetic successor of _refine_loop_successors: the ConditionNode chain
\* over the successors, of which the model keeps the outermost condition
SyntheticSuccessor(condition) ==
    NodeRec("ConditionNode", SentinelAddr, 0, NoStmt, condition, 0, 0, "")

\* graph.add_edge(u, v) on the edges of a region graph
add_edge(edges, u, v) == IF <<u, v>> \in Range(edges) THEN edges ELSE Append(edges, <<u, v>>)

\* the trailing transfer of src is made to jump to the synthetic successor,
\* the in-edges of src are put back and (src, cond) is added
redirect_last_statement(R, src, succ, cond_pos, last_stmt) ==
    IF last_stmt.raised # "" THEN [R EXCEPT !.raised = last_stmt.raised]
    ELSE IF last_stmt.stmt.kind # "ConditionalJump"
    THEN [R EXCEPT !.raised = "NotImplementedError"]
    ELSE IF last_stmt.stmt.t = succ.addr
    THEN [R EXCEPT
            !.graph.nodes[src].last =
                ConditionalJump(last_stmt.stmt.c, SentinelAddr, last_stmt.stmt.f),
            !.graph.edges =
                add_edge(SelectSeq(@, LAMBDA e : e[2] # src /\ e # <<src, succ.pos>>)
                         \o SelectSeq(@, LAMBDA e : e[2] = src), src, cond_pos)]
    ELSE IF last_stmt.stmt.f = succ.addr
    THEN [R EXCEPT
            !.graph.nodes[src].last =
                ConditionalJump(last_stmt.stmt.c, last_stmt.stmt.t, SentinelAddr),
            !.graph.edges =
                add_edge(SelectSeq(@, LAMBDA e : e[2] # src /\ e # <<src, succ.pos>>)
                         \o SelectSeq(@, LAMBDA e : e[2] = src), src, cond_pos)]
    ELSE [R EXCEPT !.raised = "Exception"]

\* the body of the loop over the in-edges (src, succ) of one successor
redirect_edge(R, src, succ, cond_pos) ==
    IF R.raised # "" THEN R
    \* the edge (src, succ) is among the removed in-edges of src
    ELSE IF src = succ.pos THEN [R EXCEPT !.raised = "NetworkXError"]
    ELSE redirect_last_statement(R, src, succ, cond_pos,
                                 get_last_statement(<<>>, R.graph.nodes[src]))

RECURSIVE redirect_edges(_, _, _, _)
redirect_edges(R, srcs, succ, cond_pos) ==
    IF srcs = <<>> THEN R
    ELSE redirect_edges(redirect_edge(R, Head(srcs), succ, cond_pos), Tail(srcs),
                        succ, cond_pos)

\* the loop "modify self._region in place" over the successors
RECURSIVE redirect_successors(_, _, _)
redirect_successors(R, succs, cond_pos) ==
    IF succs = <<>> \/ R.raised # "" THEN R
    ELSE redirect_successors(
            redirect_edges(R, predecessors(R.graph, Head(succs).pos), Head(succs), cond_pos),
            Tail(succs), cond_pos)

\* the graph after the loop: a node enters a graph with its first edge
refined_region(G, R) ==
    IF R.raised # "" THEN [R EXCEPT !.graph = G]
    ELSE IF \E e \in EdgeSet(R.graph) : e[2] = Len(G.nodes) + 1 THEN R
    ELSE [R EXCEPT !.graph.nodes = SubSeq(@, 1, Len(G.nodes))]

\* _refine_loop_successors once the reaching conditions conds are recovered;
\* self._reaching_conditions has no entry for a node that is not in the
\* region's graph
refine_with_conditions(G, succs, conds) ==
    IF \E k \in 1..Len(succs) : succs[k].pos = 0 \/ conds[succs[k].pos] = NoneC
    THEN [raised |-> "KeyError", graph |-> G]
    ELSE refined_region(G,
            redirect_successors(
                [raised |-> "",
                 graph |-> [G EXCEPT !.nodes =
                               Append(@, SyntheticSuccessor(conds[succs[Len(succs)].pos]))]],
                succs, Len(G.nodes) + 1))

\* Structurer._refine_loop_successors on the list succs: the region graph it
\* leaves
refine_loop_successors(G, succs) ==
    refine_with_conditions(G, succs, recover_reaching_conditions(G))

(***************************************************************************)
(* Structurer._to_loop_body_sequence.  While loop_region_graph is built, a *)
(* node of it is known by an identifier: the position p of a node of the   *)
(* region graph, or Len(G.nodes) + p for the break node made for it.  W    *)
(* holds the variables of the walk: queue, traversed, the nodes and edges  *)
(* of loop_region_graph in insertion order, the nodes' values (val),       *)
(* replaced_nodes (0: no entry) and self._condition_mapping.               *)
(***************************************************************************)

\* an exit that is never skipped
never_a_successor(dst, succs) == FALSE

\* dst in loop_successors
is_loop_successor(dst, succs) == \E k \in 1..Len(succs) : succs[k].pos = dst

\* loop_region_graph.add_node / add_edge / remove_node / predecessors
graph_add_node(W, x) ==
    IF x \in Range(W.nodes) THEN W ELSE [W EXCEPT !.nodes = Append(@, x)]
graph_add_edge(W, u, v) ==
    [graph_add_node(graph_add_node(W, u), v) EXCEPT !.edges = add_edge(@, u, v)]
graph_remove_node(W, x) ==
    [W EXCEPT !.nodes = SelectSeq(@, LAMBDA y : y # x),
              !.edges = SelectSeq(@, LAMBDA e : e[1] # x /\ e[2] # x)]
graph_predecessors(W, x) ==
    [k \in 1..Len(SelectSeq(W.edges, LAMBDA e : e[2] = x)) |->
        SelectSeq(W.edges, LAMBDA e : e[2] = x)[k][1]]

RECURSIVE graph_add_edges_from(_, _, _)
graph_add_edges_from(W, preds, v) ==
    IF preds = <<>> THEN W
    ELSE graph_add_edges_from(graph_add_edge(W, Head(preds), v), Tail(preds), v)

\* a conditional break made of the true arm whatever the arms target
break_condition_unchecked(G, succs, last_stmt) ==
    [raised |-> "", cond |-> last_stmt.c, target |-> last_stmt.t]

\* the condition and the target of the conditional break for a two-way
\* transfer that leaves the loop, or the exception
break_condition(G, succs, last_stmt) ==
    IF /\ \E k \in 1..Len(succs) : succs[k].addr = last_stmt.t
       /\ \E v \in NodeIds(G) : G.nodes[v].addr = last_stmt.f
    THEN [raised |-> "", cond |-> last_stmt.c, target |-> last_stmt.t]
    ELSE IF /\ \E k \in 1..Len(succs) : succs[k].addr = last_stmt.f
            /\ \E v \in NodeIds(G) : G.nodes[v].addr = last_stmt.t
    THEN [raised |-> "", cond |-> Ail("Not", <<last_stmt.c>>, 0), target |-> last_stmt.f]
    ELSE [raised |-> "Exception", cond |-> NoneC, target |-> 0]

\* "special checks if node goes empty": the break node new_id takes the place
\* of the node, or follows it
place_break_node(W, node, new_id) ==
    IF W.val[node].stmts = 0 /\ W.val[node].last.kind = "none"
    THEN graph_add_edges_from(
             [graph_remove_node(W, node) EXCEPT !.replaced[node] = new_id],
             graph_predecessors(W, node), new_id)
    ELSE graph_add_edge(W, node, new_id)

\* self._remove_last_statement(node) and the new break node
put_break_node(G, W, node, new_node, mapping) ==
    place_break_node([W EXCEPT !.val[node] = without_last_statement(@),
                               !.val[Len(G.nodes) + node] = new_node,
                               !.mapping = mapping],
                     node, Len(G.nodes) + node)

\* the ConditionalBreakNode for the break condition bc
add_conditional_break(G, W, node, bc) ==
    IF bc.raised # "" THEN [W EXCEPT !.raised = bc.raised]
    ELSE put_break_node(G, W, node,
             ConditionalBreakNode(ins_addr(W.val[node]),
                                  bool_variable_from_ail_condition(bc.cond), bc.target),
             update_mapping(W.mapping, mapping_entries(bc.cond)))

\* the part of the walk's body that puts a break node in: node has an exit
add_break_node(G, succs, W, node) ==
    IF W.val[node].last.kind = "Jump"
    THEN put_break_node(G, W, node,
                        BreakNode(ins_addr(W.val[node]), W.val[node].last.t), W.mapping)
    ELSE add_conditional_break(G, W, node, break_condition(G, succs, W.val[node].last))

\* the body of the loop over the successors of the walked node for one dst
walk_successor(G, W, node, dst) ==
    IF dst \in W.traversed \/ dst \in Range(W.queue)
    THEN (IF dst # G.head
          THEN graph_add_edge(W, node, IF W.replaced[dst] # 0 THEN W.replaced[dst] ELSE dst)
          ELSE W)
    ELSE [(IF dst # G.head
           THEN graph_add_edge(W, node, IF W.replaced[dst] # 0 THEN W.replaced[dst] ELSE dst)
           ELSE W) EXCEPT !.queue = Append(@, dst)]

\* the loop over the successors dst of the walked node; node is the break node
\* when one was made
RECURSIVE walk_successors(_, _, _, _, _)
walk_successors(G, succs, W, node, dsts) ==
    IF dsts = <<>> THEN W
    ELSE IF is_loop_successor(Head(dsts), succs)
    THEN walk_successors(G, succs, W, node, Tail(dsts))
    ELSE walk_successors(G, succs, walk_successor(G, W, node, Head(dsts)), node, Tail(dsts))

\* any(succ_addr in loop_successor_addrs for succ_addr in real_successor_addrs)
has_exit(stmt, succs) ==
    \E k \in 1..Len(extract_jump_targets(stmt)) :
        \E j \in 1..Len(succs) : extract_jump_targets(stmt)[k] = succs[j].addr

RECURSIVE walk_loop(_, _, _)

\* the walk goes on from the node (the break node when one was made)
walk_on(G, succs, W, old_node, node) ==
    IF W.raised # "" THEN W
    ELSE walk_loop(G, succs, walk_successors(G, succs, W, node, successors(G, old_node)))

\* the body of the loop "while queue" for the node taken from the queue
walk_node(G, succs, W, node, last_stmt) ==
    IF last_stmt.raised # "" THEN [W EXCEPT !.raised = last_stmt.raised]
    ELSE IF has_exit(last_stmt.stmt, succs)
    THEN walk_on(G, succs, add_break_node(G, succs, W, node), node, Len(G.nodes) + node)
    ELSE walk_on(G, succs, W, node, node)

\* the loop "while queue" of _to_loop_body_sequence
walk_loop(G, succs, W) ==
    IF W.raised # "" \/ W.queue = <<>> THEN W
    ELSE walk_node(G, succs,
                   [graph_add_node(W, Head(W.queue)) EXCEPT
                       !.queue = Tail(@), !.traversed = @ \cup {Head(W.queue)}],
                   Head(W.queue),
                   get_last_statement(<<>>, W.val[Head(W.queue)]))

\* GraphRegion(loop_head, loop_region_graph) of the finished walk W
loop_body_region(G, W) ==
    LET position(x) == CHOOSE k \in 1..Len(W.nodes) : W.nodes[k] = x
    IN [raised |-> W.raised,
        mapping |-> W.mapping,
        graph |-> IF W.raised # "" THEN G
                  ELSE Graph([k \in 1..Len(W.nodes) |-> W.val[W.nodes[k]]],
                             [k \in 1..Len(W.edges) |->
                                 <<position(W.edges[k][1]), position(W.edges[k][2])>>],
                             IF G.head \in Range(W.nodes) THEN position(G.head) ELSE 0)]

\* _to_loop_body_sequence up to GraphRegion(loop_head, loop_region_graph)
to_loop_body_region(G, succs, mapping) ==
    loop_body_region(G,
        walk_loop(G, succs,
            [queue |-> <<G.head>>, traversed |-> {}, nodes |-> <<>>, edges |-> <<>>,
             val |-> [x \in 1..2 * Len(G.nodes) |->
                         IF x <= Len(G.nodes) THEN G.nodes[x] ELSE NoNode],
             replaced |-> [x \in 1..Len(G.nodes) |-> 0],
             mapping |-> mapping, raised |-> ""]))

\* a LoopNode is rebuilt with addr=node.addr
rebuild_loops(h) ==
    [s \in 1..Len(h) |->
        [i \in 1..Len(h[s]) |->
            IF h[s][i].ty # "ConditionNode" /\ h[s][i].node.k = "LoopNode"
            THEN [h[s][i] EXCEPT !.node.addr = loop_addr(h, h[s][i].node),
                                 !.addr = loop_addr(h, h[s][i].node)]
            ELSE h[s][i]]]

\* _remove_claripy_bool_asts of _analyze_cyclic
remove_claripy_bool_asts_and_rebuild_loops(mapping, h) ==
    rebuild_loops(remove_claripy_bool_asts(mapping, h))

\* a condition of the tree is the exception its conversion raised
conversion_raised(h) ==
    \E s \in 1..Len(h) : \E i \in 1..Len(h[s]) :
        \/ IsError(h[s][i].rc) \/ IsError(h[s][i].cond)
        \/ IsError(h[s][i].trc) \/ IsError(h[s][i].frc)
        \/ IsError(h[s][i].node.cond)

(***************************************************************************)
(* What _analyze_cyclic does once the Structurer of the loop body has      *)
(* returned seq: the rest of _to_loop_body_sequence, _make_endless_loop,   *)
(* _refine_loop and the result sequence.  frame holds the variables of the *)
(* waiting invocation.  The value is [raised, heap, loop].                 *)
(***************************************************************************)

Finished(raised, h, loop) == [raised |-> raised, heap |-> h, loop |-> loop]

\* seq = self._remove_claripy_bool_asts(seq)
finish_result(loop, h) ==
    IF conversion_raised(h) THEN Finished("conversion", h, NoNode)
    ELSE Finished("", h, loop)

\* seq = SequenceNode(nodes=[loop_node] + [succ for succ in successors if succ
\* in self._region.graph])
finish_sequence(frame, refined, in_graph) ==
    IF refined.raised # "" THEN Finished(refined.raised, refined.heap, NoNode)
    ELSE finish_result(refined.loop,
            remove_claripy_bool_asts_and_rebuild_loops(frame.mapping,
                NewSeq(refined.heap,
                       <<Raw(refined.loop)>>
                       \o [k \in 1..Len(in_graph) |->
                              Raw(frame.region.nodes[in_graph[k].pos])])))

\* seq.remove_empty_node(), _make_endless_loop and _refine_loop
finish_loop_node(frame, seq, removed) ==
    IF removed.raised # "" THEN Finished(removed.raised, removed.heap, NoNode)
    ELSE finish_sequence(frame,
            refine_loop(remove_empty_node(removed.heap, seq),
                        LoopNode("while", NoneC, seq,
                                 frame.region.nodes[frame.region.head].addr)),
            SelectSeq(frame.successors, LAMBDA succ : succ.pos # 0))

\* the trailing jump to the loop head is removed
finish_last_statement(frame, h, seq, last_stmt) ==
    IF last_stmt.raised # "" THEN Finished(last_stmt.raised, h, NoNode)
    ELSE IF last_stmt.stmt.kind # "Jump"
    THEN finish_loop_node(frame, seq, [raised |-> "", heap |-> h])
    ELSE IF last_stmt.stmt.t # frame.region.nodes[frame.region.head].addr
    THEN Finished("Exception", h, NoNode)
    ELSE finish_loop_node(frame, seq, remove_last_statement(h, seq))

finish_loop(frame, h, seq) ==
    IF conversion_raised(h) THEN Finished("conversion", h, NoNode)
    ELSE finish_last_statement(frame, h, seq, get_last_statement(h, SequenceRef(seq)))

-----------------------------------------------------------------------------
(***************************************************************************)
(* The cyclic run: a Structurer on a region with a cycle, with the         *)
(* Structurer invocations it nests for the loop bodies.  The invocation    *)
(* at work owns region, condition_mapping, heap, ...; the ones waiting for *)
(* it are in frames.                                                       *)
(***************************************************************************)

\* largest number of blocks of a region, all transfers enumerated
MaxLoopNodes == 3
\* number of addresses outside the region that a parent's graph gives as successors
MaxExits == 2
\* cap on the number of waiting invocations
MaxDepth == 4

ExitAddrs == OutAddr..OutAddr + MaxExits - 1

\* the trailing statements block i of a region of n blocks can have
LoopTransfers(i, n) ==
    LET targets == (1..n) \cup {OutAddr}
    IN {NoStmt} \cup {Jump(t) : t \in targets}
       \cup {ConditionalJump(AilConvert1(i), p[1], p[2]) :
                 p \in {q \in targets \X targets : q[1] # q[2]}}

RECURSIVE LoopTransferSeqs(_, _)
LoopTransferSeqs(i, n) ==
    IF i > n THEN {<<>>}
    ELSE {<<t>> \o rest : t \in LoopTransfers(i, n), rest \in LoopTransferSeqs(i + 1, n)}

\* GraphRegion(head, graph): the blocks of only_transfer hold nothing but
\* their trailing transfer
LoopRegionOf(trs, only_transfer) ==
    Graph([i \in 1..Len(trs) |-> Block(i, IF i \in only_transfer THEN 0 ELSE 1, trs[i])],
          all_edges(trs, 1), 1)

IsCyclicRegion(G) == has_cycle(G) /\ ReachableFrom(G, {G.head}) = NodeIds(G)

\* a loop of two blocks with one exit each, to two blocks on a cycle of their own
TwoExitLoops ==
    {LoopRegionOf(<<ConditionalJump(AilConvert1(1), 2, 3),
                    ConditionalJump(AilConvert1(2), 1, 4), t3, t4>>, {}) :
        t3 \in {Jump(4), ConditionalJump(AilConvert1(3), 4, OutAddr)},
        t4 \in {Jump(3), ConditionalJump(AilConvert1(4), 3, OutAddr)}}

\* a loop whose head holds nothing but a conditional jump into the loop, with
\* an exit at its last block
EmptyHeadLoops ==
    {LoopRegionOf(<<ConditionalJump(AilConvert1(1), 2, 3), t2, t3>>, only_transfer) :
        only_transfer \in {{1}, {1, 3}},
        t2 \in LoopTransfers(2, MaxLoopNodes),
        t3 \in {ConditionalJump(AilConvert1(3), 1, OutAddr),
                ConditionalJump(AilConvert1(3), OutAddr, 1)}}

ParentMaps ==
    {NoParentMap, ParentMap(<<>>)}
    \cup {ParentMap(<<exits>>) : exits \in SUBSET ExitAddrs \ {{}}}
    \cup {ParentMap(<<{}, exits>>) : exits \in SUBSET ExitAddrs \ {{}}}

\* the inputs of the run: a region and a parent map
CyclicInputs ==
    {in \in {<<LoopRegionOf(trs, only_transfer), pm>> :
                trs \in UNION {LoopTransferSeqs(1, n) : n \in 1..MaxLoopNodes - 1},
                only_transfer \in SUBSET (1..MaxLoopNodes - 1),
                pm \in ParentMaps} :
        IsCyclicRegion(in[1])}
    \cup {in \in {<<LoopRegionOf(trs, {}), ParentMap(<<{OutAddr}>>)>> :
                     trs \in LoopTransferSeqs(1, MaxLoopNodes)} :
             IsCyclicRegion(in[1])}
    \cup {<<G, ParentMap(<<>>)>> : G \in TwoExitLoops}
    \cup {<<G, ParentMap(<<{OutAddr}>>)>> : G \in EmptyHeadLoops}

InitCyclic ==
    /\ pc = "start"
    /\ \E in \in CyclicInputs : region = in[1] /\ parents = in[2]
    /\ frames = <<>>
    /\ original_successors = <<>>
    /\ loop_successors = <<>>
    /\ graphs = <<>>
    /\ stack = <<>>
    /\ parent_map = <<>>
    /\ structured = <<>>
    /\ spliced = {}
    /\ order = <<>>
    /\ rcs = <<>>
    /\ condition_mapping = <<>>
    /\ heap = <<>>
    /\ queue = <<>>
    /\ result = 0
    /\ seq_in = <<>>
    /\ ail_condition = NoneC
    /\ translated = NoneC
    /\ converted = NoneC
    /\ loop_node = NoNode

\* the variables the cyclic run leaves alone
outside_cyclic == <<seq_in, vars_translation, vars_recursive>>

Frame(G, mapping, the_parent_map, original, succs) ==
    [region |-> G, mapping |-> mapping, parents |-> the_parent_map,
     original |-> original, successors |-> succs]

\* loop_subgraph, successors = self._find_loop_nodes_and_successors(); the
\* order of the set successors is the order list() gives it
FindLoopNodesAndSuccessors ==
    /\ pc = "start"
    /\ has_cycle(region)
    /\ \E found \in {find_loop_nodes_and_successors(region, parents)} :
          IF found.raised # ""
          THEN pc' = "raised" /\ UNCHANGED <<original_successors, loop_successors>>
          ELSE /\ pc' = "found"
               /\ \E succs \in Perms(found.successors) :
                     /\ original_successors' = succs
                     /\ loop_successors' = succs
    /\ UNCHANGED <<region, order, rcs, condition_mapping, heap, queue, result, loop_node,
                   frames, parents>>
    /\ UNCHANGED outside_cyclic

\* if len(successors) > 1: self._refine_loop_successors(...), the successors
\* are identified again, and assert len(successors) <= 1
RefineLoopSuccessors ==
    /\ pc = "found"
    /\ Len(loop_successors) > 1
    /\ \E refined \in {refine_loop_successors(region, loop_successors)} :
       \E found \in {find_loop_nodes_and_successors(refined.graph, parents)} :
          IF refined.raised # "" \/ found.raised # ""
          THEN pc' = "raised" /\ UNCHANGED <<region, rcs, condition_mapping, loop_successors>>
          ELSE /\ region' = refined.graph
               /\ rcs' = recover_reaching_conditions(region)
               /\ condition_mapping' = recovered_mapping(region, condition_mapping, 1)
               /\ \E succs \in Perms(found.successors) : loop_successors' = succs
               /\ pc' = IF Cardinality(found.successors) <= 1 THEN "refined" ELSE "raised"
    /\ UNCHANGED <<order, heap, queue, result, loop_node, frames, parents,
                   original_successors>>
    /\ UNCHANGED outside_cyclic

\* _make_endless_loop, _to_loop_body_sequence up to the Structurer of the loop
\* body: Structurer(region, condition_mapping=self._condition_mapping.copy())
ToLoopBodySequence ==
    /\ pc \in {"found", "refined"}
    /\ Len(loop_successors) <= 1
    /\ Len(frames) < MaxDepth
    /\ \E body \in {to_loop_body_region(region, loop_successors, condition_mapping)} :
          IF body.raised # ""
          THEN /\ pc' = "raised"
               /\ UNCHANGED <<region, rcs, condition_mapping, frames, parents,
                              original_successors, loop_successors>>
          ELSE /\ frames' = Append(frames, Frame(region, body.mapping, parents,
                                                 original_successors, loop_successors))
               /\ region' = body.graph
               /\ condition_mapping' = body.mapping
               /\ parents' = NoParentMap
               /\ rcs' = <<>>
               /\ original_successors' = <<>>
               /\ loop_successors' = <<>>
               /\ pc' = "start"
    /\ UNCHANGED <<order, heap, queue, result, loop_node>>
    /\ UNCHANGED outside_cyclic

\* seq = structurer.result and the rest of _analyze_cyclic
FinishLoop ==
    /\ pc = "done"
    /\ frames # <<>>
    /\ \E frame \in {frames[Len(frames)]} :
       \E finished \in {finish_loop(frame, heap, result)} :
          /\ pc' = IF finished.raised # "" THEN "raised" ELSE "done"
          /\ heap' = IF finished.raised # "" THEN heap ELSE finished.heap
          /\ result' = IF finished.raised # "" THEN 0 ELSE Len(finished.heap)
          /\ loop_node' = finished.loop
          /\ region' = frame.region
          /\ condition_mapping' = frame.mapping
          /\ parents' = frame.parents
          /\ original_successors' = frame.original
          /\ loop_successors' = frame.successors
          /\ frames' = SubSeq(frames, 1, Len(frames) - 1)
    /\ queue' = <<>>
    /\ UNCHANGED <<order, rcs>>
    /\ UNCHANGED outside_cyclic

NextCyclic ==
    \/ FindLoopNodesAndSuccessors
    \/ RefineLoopSuccessors
    \/ ToLoopBodySequence
    \/ FinishLoop
    \/ RecoverReachingConditions
    \/ MakeSequence
    \/ StructureSequence
    \/ MakeConditionNodes
    \/ MergeConditionalBreaks
    \/ RemoveClaripyBoolAsts

SpecCyclic == InitCyclic /\ [][NextCyclic]_vars

-----------------------------------------------------------------------------
(***************************************************************************)
(* Properties of the cyclic run                                            *)
(***************************************************************************)

\* the outermost Structurer has returned, or an exception has left it
Ended == pc = "raised" \/ (pc = "done" /\ frames = <<>>)

\* a BreakNode or ConditionalBreakNode is somewhere under the SequenceNode sid
RECURSIVE holds_break(_, _)
holds_break(h, sid) ==
    \E i \in 1..Len(Nodes(h, sid)) :
        LET item == Nodes(h, sid)[i] IN
        \/ item.node.k \in {"BreakNode", "ConditionalBreakNode"}
        \/ item.fnode.k \in {"BreakNode", "ConditionalBreakNode"}
        \/ item.node.k \in {"SequenceNode", "LoopNode"} /\ holds_break(h, item.node.id)
        \/ item.fnode.k \in {"SequenceNode", "LoopNode"} /\ holds_break(h, item.fnode.id)

\* the region {Head -> N1, N1 -> Head, N1 -> Exit on K}, Exit being the
\* region's successor in a parent's graph
HeadN1Exit ==
    /\ Len(region.nodes) = 2
    /\ region.nodes[1].last = Jump(2)
    /\ region.nodes[2].last = ConditionalJump(AilConvert1(2), OutAddr, 1)
    /\ parents.given
    /\ parent_successors(parents.chain) = {OutAddr}

\* C2: cyclic structuring of {Head -> N1, N1 -> Head, N1 -> Exit on K} ends
\* with a Sequence that holds only a Loop, the Loop is a while or do-while
\* loop whose condition is not K, and its body holds no Break and no
\* ConditionalBreak
C2_LoopWithoutResidualBreak ==
    (HeadN1Exit /\ Ended) =>
        /\ pc = "done"
        /\ Len(Nodes(heap, result)) = 1
        /\ LET loop == Nodes(heap, result)[1].node IN
           /\ loop.k = "LoopNode"
           /\ loop.sort \in {"while", "do-while"}
           /\ loop.cond = Ail("Not", <<AilConvert1(2)>>, 0)
           /\ ~holds_break(heap, loop.id)

\* the run on Head, N1, Exit ends with a Sequence that holds only a Loop
C2_LoopMade ==
    /\ HeadN1Exit
    /\ pc = "done" /\ frames = <<>>
    /\ Len(Nodes(heap, result)) = 1
    /\ Nodes(heap, result)[1].node.k = "LoopNode"

\* C6: once the first identification has given more than one successor and
\* _refine_loop_successors and the second identification are over, exactly
\* one successor is left, it is the synthetic one, and no edge of the region
\* graph goes to one of the original successors
C6_OneSyntheticSuccessor ==
    (Len(original_successors) > 1 /\ pc # "found") =>
        /\ Len(loop_successors) = 1
        /\ loop_successors[1].addr = SentinelAddr
        /\ loop_successors[1].pos # 0
        /\ \A e \in EdgeSet(region) : \A k \in 1..Len(original_successors) :
              e[2] # original_successors[k].pos

\* a refinement that leaves the synthetic successor alone
C6_Refined ==
    /\ pc = "refined"
    /\ Len(original_successors) > 1
    /\ Len(loop_successors) = 1
    /\ loop_successors[1].addr = SentinelAddr

\* more SequenceNodes than one Structurer invocation makes before its
\* _new_sequences is empty
MaxSeqs == 4 * (MaxLoopNodes + 2)

\* what is left to do for the invocation at work, up to its last pass
StepsLeft ==
    CASE pc = "start" -> MaxSeqs + 5
      [] pc = "found" -> MaxSeqs + 4
      [] pc = "refined" -> MaxSeqs + 3
      [] pc = "recovered" -> MaxSeqs + 4
      [] pc = "structuring" -> 3 + MaxSeqs - (Len(heap) - Len(queue))
      [] pc = "conditioned" -> 2
      [] pc = "merged" -> 1
      [] OTHER -> 0

\* a variant of the run: the invocations that can still be nested and the
\* steps of the one at work, then the invocations waiting for a result
Variant ==
    IF pc = "raised" THEN 0
    ELSE IF pc = "done" THEN 1 + Len(frames)
    ELSE MaxDepth + 2 + (MaxDepth - Len(frames)) * (MaxSeqs + 6) + StepsLeft

\* a run that has not ended has a step to take
CanStep ==
    \/ pc \in {"start", "structuring", "conditioned", "merged"}
    \/ pc = "found" /\ (Len(loop_successors) > 1 \/ Len(frames) < MaxDepth)
    \/ pc = "refined" /\ Len(loop_successors) <= 1 /\ Len(frames) < MaxDepth
    \/ pc = "recovered" /\ topological_sort(region) # {}
    \/ pc = "done" /\ frames # <<>>

\* C8: a Structurer invocation on a finite region terminates, whether or not
\* its cycles pass through the head: the chain of nested loop-body
\* invocations never reaches MaxDepth, every step decreases a variant that
\* is a natural number, and a run that has neither a result nor an
\* exception has a step to take
C8_Terminates ==
    /\ [](Len(frames) < MaxDepth)
    /\ [](Variant \in Nat)
    /\ [][Variant' < Variant]_vars
    /\ [](Ended \/ CanStep)

\* the head of G is on no cycle, and a cycle is in G
CycleOffHead(G) ==
    /\ G.head \notin Descendants(G, G.head)
    /\ \E v \in NodeIds(G) : v \in Descendants(G, v)

\* the Structurer of a loop body whose cycle does not pass through its head
\* has nested a Structurer of its own
C8_NestedLoopBodies ==
    /\ Len(frames) = 2
    /\ CycleOffHead(frames[2].region)

\* the entries of the mapping of the Structurer at work that the mapping of
\* the Structurer waiting for it does not hold
EntriesNotInCaller ==
    {i \in 1..Len(condition_mapping) :
        \A j \in 1..Len(frames[Len(frames)].mapping) :
            frames[Len(frames)].mapping[j] # condition_mapping[i]}

\* C11: when the Structurer of a loop body returns, every entry of its
\* condition mapping is in the condition mapping of its caller
C11_NestedEntriesInCallerMapping ==
    (pc = "done" /\ frames # <<>>) => EntriesNotInCaller = {}

\* the Structurer of a loop body returns with a mapping that is not empty
C11_NestedCallReturned ==
    pc = "done" /\ frames # <<>> /\ condition_mapping # <<>>

\* the graph G2 has the nodes and the edges of the graph G1, a block being
\* the same or without its trailing transfer
SameGraphButTransfers(G1, G2) ==
    /\ Len(G2.nodes) = Len(G1.nodes)
    /\ EdgeSet(G2) = EdgeSet(G1)
    /\ \A i \in 1..Len(G1.nodes) :
          \/ G2.nodes[i] = G1.nodes[i]
          \/ G1.nodes[i].k = "Block" /\ G2.nodes[i] = without_last_statement(G1.nodes[i])

\* C12: a step of a Structurer invocation leaves the nodes and the edges of
\* the graph of its region as they are; at most the trailing transfer of a
\* block is removed
C12_RegionGraphUnchanged ==
    [][frames' = frames => SameGraphButTransfers(region, region')]_vars

\* the region graph after a refinement of the loop successors
C12_RegionRefined ==
    /\ pc = "refined"
    /\ \E i \in 1..Len(region.nodes) : region.nodes[i].addr = SentinelAddr

\* the nodes the walk of _to_loop_body_sequence takes from its queue: the
\* head and what edges that do not enter a loop successor lead to
RECURSIVE WalkedFrom(_, _, _)
WalkedFrom(G, succs, S) ==
    LET more == {e[2] : e \in {x \in EdgeSet(G) :
                                  x[1] \in S /\ \A k \in 1..Len(succs) : succs[k].pos # x[2]}}
    IN IF more \subseteq S THEN S ELSE WalkedFrom(G, succs, S \cup more)

\* a two-way transfer with an arm to a loop successor, whose arms are not
\* one to a loop successor and the other to a node of the region
UnsplitTransfer(G, succs, stmt) ==
    LET to_successor(a) == \E k \in 1..Len(succs) : succs[k].addr = a
        to_region(a) == \E v \in NodeIds(G) : G.nodes[v].addr = a
    IN /\ stmt.kind = "ConditionalJump"
       /\ to_successor(stmt.t) \/ to_successor(stmt.f)
       /\ ~(to_successor(stmt.t) /\ to_region(stmt.f))
       /\ ~(to_successor(stmt.f) /\ to_region(stmt.t))

\* the construction of the loop body is about to meet such a transfer
WalkMeetsUnsplitTransfer ==
    /\ Len(loop_successors) <= 1
    /\ \E v \in WalkedFrom(region, loop_successors, {region.head}) :
          /\ region.nodes[v].k = "Block"
          /\ UnsplitTransfer(region, loop_successors, region.nodes[v].last)

LoopIsWholeRegion ==
    /\ region.head # 0
    /\ strongly_connected_component(region, region.head) = NodeIds(region)

\* C14: a Structurer without a parent map, on a cyclic region whose loop has
\* no successor in the region's own graph, raises nothing and ends with a
\* Sequence that holds only the Loop
C14_NoParentMapNeeded ==
    (frames = <<>> /\ ~parents.given /\ LoopIsWholeRegion) =>
        /\ pc # "raised"
        /\ pc = "done" =>
              /\ Len(Nodes(heap, result)) = 1
              /\ Nodes(heap, result)[1].node.k = "LoopNode"

\* a Structurer with a parent map has structured a loop that is its whole region
C14_WholeRegionLoopDone ==
    /\ frames = <<>> /\ parents.given /\ LoopIsWholeRegion
    /\ pc = "done"
    /\ Len(Nodes(heap, result)) = 1
    /\ Nodes(heap, result)[1].node.k = "LoopNode"

\* the condition c, when there is one, is true under the assignment asg
CondHolds(c, asg) == c = NoneC \/ Eval(c, asg)

\* under the assignment asg some path from the SequenceNode sid down to the
\* block at address a has every condition on it true: the reaching condition
\* of a Code node, the condition of a Condition node for its true branch and
\* its complement for its false branch
RECURSIVE GuardHolds(_, _, _, _)
GuardHolds(h, sid, a, asg) ==
    LET Under(node) ==
            \/ node.k = "Block" /\ node.addr = a
            \/ node.k = "SequenceNode" /\ GuardHolds(h, node.id, a, asg)
    IN \E i \in 1..Len(Nodes(h, sid)) :
          LET item == Nodes(h, sid)[i] IN
          IF item.ty = "ConditionNode"
          THEN \/ Eval(item.cond, asg) /\ CondHolds(item.trc, asg) /\ Under(item.node)
               \/ ~Eval(item.cond, asg) /\ CondHolds(item.frc, asg) /\ Under(item.fnode)
          ELSE CondHolds(item.rc, asg) /\ Under(item.node)

\* C15: acyclic structuring keeps every node's guard: in the structured
\* tree the conjunction of the conditions on the path to a block is
\* equivalent to the block's recovered reaching condition
C15_GuardIsReachingCondition ==
    pc = "conditioned" =>
        \A n \in NodeIds(region) : \A asg \in SUBSET Atoms :
            GuardHolds(heap, 1, region.nodes[n].addr, asg) <=> Eval(rcs[n], asg)

\* a tree with a Condition node of two branches has been made of a region
\* with a reaching condition that is an Or
C15_OrStructured ==
    /\ pc = "conditioned"
    /\ \E n \in NodeIds(region) : rcs[n].op = "Or"
    /\ \E s \in 1..Len(heap) : \E i \in 1..Len(heap[s]) :
          heap[s][i].ty = "ConditionNode" /\ heap[s][i].fnode # NoNode

\* the SequenceNodes of the tree under the SequenceNode sid, those in the
\* branches of Condition nodes included
RECURSIVE TreeSeqs(_, _)
TreeSeqs(h, sid) ==
    {sid}
    \cup UNION {TreeSeqs(h, Nodes(h, sid)[i].node.id) :
                  i \in {j \in 1..Len(Nodes(h, sid)) :
                            Nodes(h, sid)[j].node.k = "SequenceNode"}}
    \cup UNION {TreeSeqs(h, Nodes(h, sid)[i].fnode.id) :
                  i \in {j \in 1..Len(Nodes(h, sid)) :
                            Nodes(h, sid)[j].fnode.k = "SequenceNode"}}

\* a Code node whose reaching condition is present and not true
ConditionallyReached(item) ==
    item.ty = "CodeNode" /\ item.rc # NoneC /\ ~is_true(item.rc)

\* C16: _make_condition_nodes turns every Code child, of a Sequence at any
\* depth of the tree, whose reaching condition is present and not true into
\* the true branch of a Condition node of one branch with that condition; a
\* ConditionalBreak child stays a ConditionalBreak, its condition conjoined
\* with the reaching condition
C16_ConditionNodesAtAnyDepth ==
    [][(pc = "structuring" /\ pc' = "conditioned") =>
          \A s \in TreeSeqs(heap, 1) : \A i \in 1..Len(heap[s]) :
              ConditionallyReached(heap[s][i]) =>
                  IF heap[s][i].node.k = "ConditionalBreakNode"
                  THEN /\ heap'[s][i].ty = "CodeNode"
                       /\ heap'[s][i].node.k = "ConditionalBreakNode"
                       /\ Equivalent(heap'[s][i].node.cond,
                                     claripy_And(<<heap[s][i].rc, heap[s][i].node.cond>>))
                  ELSE heap'[s][i] = ConditionNode(addr_of(heap, heap[s][i]), heap[s][i].rc,
                                                   heap[s][i], NoCode)]_vars

\* a Condition node of one branch has been made of a Code child of the
\* outermost Sequence
C16_ConditionNodeMade ==
    /\ pc = "conditioned"
    /\ \E i \in 1..Len(heap[1]) :
          /\ heap[1][i].ty = "ConditionNode"
          /\ heap[1][i].fnode = NoNode
          /\ heap[1][i].cond = heap[1][i].trc

-----------------------------------------------------------------------------
(***************************************************************************)
(* The break-merging run: _merge_conditional_breaks on one SequenceNode.   *)
(***************************************************************************)

\* largest number of children of the SequenceNode
MaxBreaks == 4

\* the children the SequenceNode can have at position i: a block, a
\* ConditionalBreak on the variable i, a ConditionalBreak under a Code node
BreakChildren(i) ==
    {Raw(Block(i, 1, NoStmt)),
     Raw(ConditionalBreakNode(i, BVar(i), OutAddr)),
     CodeNode(ConditionalBreakNode(i, claripy_Not(BVar(i)), OutAddr), NoneC)}

RECURSIVE BreakLists(_, _)
BreakLists(i, n) ==
    IF i > n THEN {<<>>}
    ELSE {<<c>> \o rest : c \in BreakChildren(i), rest \in BreakLists(i + 1, n)}

InitBreaks ==
    /\ pc = "conditioned"
    /\ RestIdle
    /\ seq_in \in UNION {BreakLists(1, n) : n \in 0..MaxBreaks}
    /\ heap = <<seq_in>>
    /\ loop_node = NoNode
    /\ queue = <<>>
    /\ region = NoRegion
    /\ order = <<>>
    /\ rcs = <<>>
    /\ condition_mapping = <<>>
    /\ result = 0
    /\ ail_condition = NoneC
    /\ translated = NoneC
    /\ converted = NoneC

NextBreaks == MergeConditionalBreaks

SpecBreaks == InitBreaks /\ [][NextBreaks]_vars

IsBreak(item) == unwrap(item).node.k = "ConditionalBreakNode"

\* the last position of the run of adjacent ConditionalBreaks that holds i
RECURSIVE RunEnd(_, _)
RunEnd(nodes, i) ==
    IF i < Len(nodes) /\ IsBreak(nodes[i + 1]) THEN RunEnd(nodes, i + 1) ELSE i

\* the children with every maximal run of adjacent ConditionalBreaks made
\* one entry: the positions first..last of nodes an output child stands for
RECURSIVE RunsOf(_, _)
RunsOf(nodes, i) ==
    IF i > Len(nodes) THEN <<>>
    ELSE LET last == IF IsBreak(nodes[i]) THEN RunEnd(nodes, i) ELSE i
         IN <<[first |-> i, last |-> last]>> \o RunsOf(nodes, last + 1)

\* C17: break merging replaces every maximal run of two or more adjacent
\* ConditionalBreak children by one ConditionalBreak whose condition is
\* equivalent to the Or of the conditions of the run, and keeps every other
\* child, in order
C17_RunsMergedByOr ==
    pc = "merged" =>
        LET runs == RunsOf(seq_in, 1)
            out == Nodes(heap, 1)
        IN /\ Len(out) = Len(runs)
           /\ \A r \in 1..Len(runs) :
                 IF runs[r].last > runs[r].first
                 THEN /\ out[r].node.k = "ConditionalBreakNode"
                      /\ \A asg \in SUBSET Atoms :
                            Eval(out[r].node.cond, asg)
                              <=> \E p \in runs[r].first..runs[r].last :
                                     Eval(unwrap(seq_in[p]).node.cond, asg)
                 ELSE out[r].node = seq_in[runs[r].first].node

\* a run of two ConditionalBreaks between other children has been merged
C17_PairMerged ==
    /\ pc = "merged"
    /\ Len(seq_in) = 4
    /\ ~IsBreak(seq_in[1]) /\ IsBreak(seq_in[2]) /\ IsBreak(seq_in[3]) /\ ~IsBreak(seq_in[4])
    /\ Len(Nodes(heap, 1)) = 3

-----------------------------------------------------------------------------
(***************************************************************************)
(* The simplification run: _simplify_condition on one condition, as        *)
(* _recover_reaching_conditions calls it on the reaching condition it has  *)
(* built for a node (reaching_conditions[node] = self._simplify_condition( *)
(* reaching_condition)).  translated holds the condition, rcs the entry.   *)
(***************************************************************************)

\* number of variables of the conditions
MaxCondVars == 3

Literals == {BVar(i) : i \in 1..MaxCondVars} \cup {claripy_Not(BVar(i)) : i \in 1..MaxCondVars}

\* conjunctions of two and of three literals over different variables
Conjunctions ==
    {claripy_And(<<a, b>>) : a \in Literals, b \in Literals}
    \cup {claripy_And(<<a, b, c>>) : a \in Literals, b \in Literals, c \in Literals}

DistinctVariables(e) ==
    \A i \in 1..Len(e.args) : \A j \in 1..Len(e.args) :
        i # j => Variables(e.args[i]) # Variables(e.args[j])

Operands == Literals \cup {e \in Conjunctions : e.op = "And" /\ DistinctVariables(e)}

\* the conditions: literals, conjunctions, and disjunctions of two and of
\* three operands
Conditions ==
    Operands
    \cup {claripy_Or(<<a, b>>) : a \in Operands, b \in Operands}
    \cup {claripy_Or(<<a, b, c>>) : a \in Literals, b \in Operands, c \in Literals}

InitSimplify ==
    /\ pc = "start"
    /\ RestIdle
    /\ translated \in Conditions
    /\ rcs = <<>>
    /\ seq_in = <<>>
    /\ heap = <<>>
    /\ loop_node = NoNode
    /\ queue = <<>>
    /\ region = NoRegion
    /\ order = <<>>
    /\ condition_mapping = <<>>
    /\ result = 0
    /\ ail_condition = NoneC
    /\ converted = NoneC

\* reaching_conditions[node] = self._simplify_condition(reaching_condition)
SimplifyCondition ==
    /\ pc = "start"
    /\ rcs' = <<simplify_condition(translated)>>
    /\ pc' = "done"
    /\ UNCHANGED <<region, order, condition_mapping, heap, queue, result, seq_in,
                   loop_node>>
    /\ UNCHANGED vars_translation
    /\ UNCHANGED vars_rest

NextSimplify == SimplifyCondition

SpecSimplify == InitSimplify /\ [][NextSimplify]_vars

\* C18: the result of _simplify_condition is equivalent to its input under
\* every assignment, for disjunctions and conjunctions of more than two
\* operands too
C18_SimplifyIsSound ==
    pc = "done" => Equivalent(rcs[1], translated)

\* a condition !A || (A && !B) has been rewritten into an equivalent one
C18_Rewritten ==
    /\ pc = "done"
    /\ translated.op = "Or"
    /\ rcs[1].op = "Not"
    /\ Equivalent(rcs[1], translated)

-----------------------------------------------------------------------------
(***************************************************************************)
(* The successors and the members of the loop.                             *)
(***************************************************************************)

\* number of blocks of the regions whose loop is identified
MaxRegionNodes == 4

\* the trailing statements of LoopTransfers that stay inside the region
InnerTransfers(i, n) ==
    {t \in LoopTransfers(i, n) : OutAddr \notin Range(extract_jump_targets(t))}

RECURSIVE InnerTransferSeqs(_, _)
InnerTransferSeqs(i, n) ==
    IF i > n THEN {<<>>}
    ELSE {<<t>> \o rest : t \in InnerTransfers(i, n), rest \in InnerTransferSeqs(i + 1, n)}

\* the identification run: _find_loop_nodes_and_successors on the cyclic
\* regions of MaxRegionNodes blocks, all transfers inside the region
\* enumerated, with a parent map that gives no successor
InitLoops ==
    /\ pc = "start"
    /\ \E trs \in InnerTransferSeqs(1, MaxRegionNodes) :
          /\ region = LoopRegionOf(trs, {})
          /\ IsCyclicRegion(region)
    /\ parents = ParentMap(<<>>)
    /\ frames = <<>>
    /\ original_successors = <<>>
    /\ loop_successors = <<>>
    /\ graphs = <<>>
    /\ stack = <<>>
    /\ parent_map = <<>>
    /\ structured = <<>>
    /\ spliced = {}
    /\ order = <<>>
    /\ rcs = <<>>
    /\ condition_mapping = <<>>
    /\ heap = <<>>
    /\ queue = <<>>
    /\ result = 0
    /\ seq_in = <<>>
    /\ ail_condition = NoneC
    /\ translated = NoneC
    /\ converted = NoneC
    /\ loop_node = NoNode

NextLoops == FindLoopNodesAndSuccessors

SpecLoops == InitLoops /\ [][NextLoops]_vars

\* the members of the loop of the region at hand
LoopMembers == extend_loop_nodes(region, strongly_connected_component(region, region.head))

\* the nodes outside the set S with an edge from a node of S
DirectSuccessors(G, S) ==
    {v \in NodeIds(G) \ S : \E e \in EdgeSet(G) : e[1] \in S /\ e[2] = v}

\* C19: when some node outside the loop is a direct successor of a loop
\* member, the successors identified are exactly the nodes outside the loop
\* with an edge from a loop member, whichever node discovers them first in
\* the breadth-first walk
C19_SuccessorsAreDirectSuccessors ==
    (pc = "found" /\ DirectSuccessors(region, LoopMembers) # {})
        => {original_successors[k].pos : k \in 1..Len(original_successors)}
               = DirectSuccessors(region, LoopMembers)

\* a loop with two successors inside the region has been identified
C19_TwoSuccessorsFound ==
    /\ pc = "found"
    /\ Cardinality(DirectSuccessors(region, LoopMembers)) = 2
    /\ {original_successors[k].pos : k \in 1..Len(original_successors)}
           = DirectSuccessors(region, LoopMembers)

\* the loop nodes _find_loop_nodes_and_successors has identified
IdentifiedLoop == find_loop_nodes_and_successors(region, parents).loop_nodes

\* the growth rule adds nothing to S: no node outside S with an edge from S
\* has all its predecessors in S
GrowthStopped(G, S) ==
    \A v \in DirectSuccessors(G, S) : \E e \in EdgeSet(G) : e[2] = v /\ e[1] \notin S

\* the least set that holds the component of the head and to which the
\* growth rule adds nothing
LeastFixpoint(G) ==
    {v \in NodeIds(G) :
        \A S \in SUBSET NodeIds(G) :
            (strongly_connected_component(G, G.head) \subseteq S /\ GrowthStopped(G, S))
                => v \in S}

\* C20: the loop identified is the least fixpoint of the growth rule: every
\* member is in the component of the head or was added with all its
\* predecessors members, and no node outside the loop with an edge from a
\* member has all its predecessors inside the loop
C20_LoopIsLeastFixpoint ==
    pc = "found" =>
        /\ IdentifiedLoop = LeastFixpoint(region)
        /\ GrowthStopped(region, IdentifiedLoop)
        /\ \A v \in IdentifiedLoop \ strongly_connected_component(region, region.head) :
              /\ \E e \in EdgeSet(region) : e[2] = v
              /\ \A e \in EdgeSet(region) : e[2] = v => e[1] \in IdentifiedLoop

\* the loop has grown beyond a component of two nodes and a node with a
\* predecessor outside the loop is left out
C20_LoopGrown ==
    /\ pc = "found"
    /\ Cardinality(strongly_connected_component(region, region.head)) = 2
    /\ IdentifiedLoop # strongly_connected_component(region, region.head)
    /\ DirectSuccessors(region, IdentifiedLoop) # {}

-----------------------------------------------------------------------------
(***************************************************************************)
(* The leaf run: one condition is translated by two calls of               *)
(* _bool_variable_from_ail_condition on one condition mapping, as          *)
(* _extract_predicate calls it once for every edge out of a block that     *)
(* ends in a conditional jump.  rcs holds the values of the calls.         *)
(***************************************************************************)

\* number of leaves of a kind
MaxLeaves == 2

NativeLeaves ==
    {Ail(op, <<>>, i) : op \in {"Load", "Register", "Tmp", "Tmp1"}, i \in 1..MaxLeaves}
    \cup {AilConvert1(1)}
    \cup {Ail("Convert", <<operand>>, 0) :
              operand \in {Ail("Register", <<>>, 1), Ail("Tmp", <<>>, 1)}}

\* a leaf, and a comparison of two leaves
LeafConditions ==
    NativeLeaves \cup {Ail("CmpLT", <<a, b>>, 0) : a \in NativeLeaves, b \in NativeLeaves}

InitLeaves ==
    /\ pc = "start"
    /\ RestIdle
    /\ ail_condition \in LeafConditions
    /\ translated = NoneC
    /\ converted = NoneC
    /\ loop_node = NoNode
    /\ condition_mapping = <<>>
    /\ region = NoRegion
    /\ order = <<>>
    /\ rcs = <<>>
    /\ heap = <<>>
    /\ queue = <<>>
    /\ result = 0
    /\ seq_in = <<>>

\* bool_var = self._bool_variable_from_ail_condition(last_stmt.condition)
TranslateCondition ==
    /\ pc \in {"start", "once"}
    /\ \E t \in {translate_condition(ail_condition, var_counter(condition_mapping))} :
          /\ translated' = t.var
          /\ rcs' = Append(rcs, t.var)
          /\ condition_mapping' = update_mapping(condition_mapping, t.entries)
          /\ pc' = IF IsError(t.var) THEN "raised"
                   ELSE IF pc = "start" THEN "once" ELSE "twice"
    /\ UNCHANGED <<region, order, heap, queue, result, seq_in, ail_condition, converted,
                   loop_node>>
    /\ UNCHANGED vars_rest

NextLeaves == TranslateCondition

SpecLeaves == InitLeaves /\ [][NextLeaves]_vars

\* C21: a native leaf (Load, Register, Convert, leftover Tmp) translated
\* twice, in one call or in two, gives the identical variable: the two calls
\* return the same value, the mapping holds one variable for every leaf, and
\* that variable is an opaque symbol mapped to the leaf
C21_LeafVariablesReused ==
    /\ pc = "twice" => rcs[1] = rcs[2]
    /\ pc \in {"once", "twice"} =>
          /\ \A i \in 1..Len(condition_mapping) :
                /\ condition_mapping[i].var.op \in {"BVS", "BoolS"}
                /\ \A j \in 1..Len(condition_mapping) :
                      condition_mapping[i].expr = condition_mapping[j].expr => i = j
          /\ ail_condition \in NativeLeaves =>
                /\ in_mapping(condition_mapping, translated)
                /\ lookup(condition_mapping, translated) = ail_condition

\* a comparison of a register with itself has been translated twice, with
\* one variable for the register in all four places
C21_RegisterReused ==
    /\ pc = "twice"
    /\ ail_condition.op = "CmpLT"
    /\ ail_condition.args[1].op = "Register"
    /\ ail_condition.args[1] = ail_condition.args[2]
    /\ rcs[1] = rcs[2]
    /\ rcs[1].args[1] = rcs[1].args[2]
    /\ Len(condition_mapping) = 1
    /\ lookup(condition_mapping, rcs[2].args[1]) = ail_condition.args[1]

-----------------------------------------------------------------------------
(***************************************************************************)
(* The Loop node, the nodes of the output and the loop body.               *)
(***************************************************************************)

\* C22: the Loop node that cyclic structuring has made is anchored at the
\* loop head: after shape refinement its address is the address of the head
\* of the region, whatever its shape, also when the head block was replaced
\* by a break node or the body is empty
C22_LoopAnchoredAtHead ==
    (pc = "done" /\ loop_node # NoNode)
        => loop_addr(heap, loop_node) = region.nodes[region.head].addr

\* a while loop with a condition has been made and is anchored at the head
C22_WhileLoopAnchored ==
    /\ pc = "done"
    /\ loop_node # NoNode
    /\ loop_node.sort = "while"
    /\ loop_node.cond # NoneC
    /\ loop_addr(heap, loop_node) = region.nodes[region.head].addr

\* the number of places of the flattened output that hold the address a
Occurrences(a) == Cardinality({i \in 1..Len(Output) : Output[i] = a})

\* a block with a statement besides its trailing transfer
NonEmptyBlocks(G) == {n \in NodeIds(G) : G.nodes[n].k = "Block" /\ G.nodes[n].stmts > 0}

\* C23: no node is lost or duplicated by structuring a cyclic region: every
\* non-empty block of the region graph reachable from the head, the ones
\* reachable only through a loop successor included, is in the output tree
\* exactly once
C23_NoNodeLostOrDuplicated ==
    (pc = "done" /\ frames = <<>> /\ loop_node # NoNode)
        => \A n \in NonEmptyBlocks(region) \cap ReachableFrom(region, {region.head}) :
               Occurrences(region.nodes[n].addr) = 1

\* a region of three non-empty blocks has been structured into a loop and
\* its successor, every block in the output once
C23_LoopAndSuccessorKept ==
    /\ pc = "done"
    /\ frames = <<>>
    /\ loop_node # NoNode
    /\ Cardinality(NonEmptyBlocks(region)) = 3
    /\ Len(Nodes(heap, result)) = 2
    /\ \A n \in NonEmptyBlocks(region) : Occurrences(region.nodes[n].addr) = 1

\* C24: shape refinement never fails: whatever loop body the loop-body
\* construction returns, a body left without children included, the step
\* that refines the loop does not end in the IndexError of _refine_loop
C24_RefineLoopNeverRaises ==
    [][(pc = "done" /\ frames # <<>> /\ pc' = "raised")
          => finish_loop(frames[Len(frames)], heap, result).raised # "IndexError"]_vars

\* the loop of a body that ends in a break has been refined into a do-while
\* loop over the children left
C24_BodyRefined ==
    /\ pc = "done"
    /\ frames = <<>>
    /\ loop_node # NoNode
    /\ loop_node.sort = "do-while"
    /\ Nodes(heap, loop_node.id) # <<>>

(***************************************************************************)
(* The work queue of the acyclic restructuring.                            *)
(***************************************************************************)

\* the subexpressions of a reaching condition that factoring can still take
\* out of it
SubexprsLeft(subexprs) ==
    Cardinality({k \in 1..Len(subexprs) : subexprs[k] # BTrue})

RECURSIVE ChildrenWork(_, _)
ChildrenWork(nodes, k) ==
    IF k > Len(nodes) THEN 0
    ELSE (IF nodes[k].ty = "CodeNode" /\ nodes[k].rc # NoneC
          THEN SubexprsLeft(get_reaching_condition_subexprs(nodes[k].rc))
          ELSE 0)
         + ChildrenWork(nodes, k + 1)

\* the work the SequenceNodes waiting in _new_sequences stand for: one round
\* of the loop each, and the subexpressions of the conditions of their children
RECURSIVE QueueWork(_, _)
QueueWork(h, q) ==
    IF q = <<>> THEN 0
    ELSE 1 + ChildrenWork(Nodes(h, Head(q)), 1) + QueueWork(h, Tail(q))

\* C25: the work queue of the acyclic restructuring drains: every round of
\* the loop of _analyze_acyclic dequeues a SequenceNode that exists, ends
\* (the if/else search and the factoring make at most two SequenceNodes for
\* every child they take out of the dequeued one) and leaves less work in
\* the queue than it found, a natural number, so the queue is empty after
\* finitely many rounds
C25_QueueDrains ==
    /\ [](pc = "structuring" => QueueWork(heap, queue) \in Nat)
    /\ [](pc = "structuring" => \A k \in 1..Len(queue) : queue[k] \in 1..Len(heap))
    /\ [][(pc = "structuring" /\ queue # <<>>) =>
            /\ QueueWork(heap', queue') < QueueWork(heap, queue)
            /\ Len(heap') - Len(heap) <= 2 * Len(Nodes(heap, Head(queue)))
            /\ Len(queue') - Len(queue) < Len(heap') - Len(heap) + 1]_vars

\* a SequenceNode that a round of the loop enqueued has been dequeued and has
\* enqueued a SequenceNode of its own, which is waiting
C25_NestedSequenceEnqueued ==
    /\ pc = "structuring"
    /\ queue # <<>>
    /\ \E s \in 2..Len(heap) : \E i \in 1..Len(Nodes(heap, s)) :
          /\ Nodes(heap, s)[i].ty = "CodeNode"
          /\ Nodes(heap, s)[i].node.k = "SequenceNode"
          /\ Nodes(heap, s)[i].node.id = queue[1]
          /\ \E i0 \in 1..Len(Nodes(heap, 1)) :
                /\ Nodes(heap, 1)[i0].ty = "CodeNode"
                /\ Nodes(heap, 1)[i0].node.k = "SequenceNode"
                /\ Nodes(heap, 1)[i0].node.id = s

(***************************************************************************)
(* The operands of a converted condition.                                  *)
(***************************************************************************)

\* the truth value of a native condition when the 1-bit conversions of asg
\* are the ones that hold
RECURSIVE NativeHolds(_, _)
NativeHolds(e, asg) ==
    CASE e.op = "Convert"    -> e.v \in asg
      [] e.op = "Const"      -> e.v = 1
      [] e.op = "BoolV"      -> e.v = 1
      [] e.op = "Not"        -> ~NativeHolds(e.args[1], asg)
      [] e.op = "LogicalAnd" -> NativeHolds(e.args[1], asg) /\ NativeHolds(e.args[2], asg)
      [] e.op = "LogicalOr"  -> NativeHolds(e.args[1], asg) \/ NativeHolds(e.args[2], asg)
      [] OTHER               -> FALSE

\* the And and Or nodes of a claripy condition
RECURSIVE AndOrNodes(_)
AndOrNodes(c) ==
    (IF c.op \in {"And", "Or"} /\ ~c.ail THEN {c} ELSE {})
    \cup UNION {AndOrNodes(c.args[i]) : i \in 1..Len(c.args)}

\* the conditions _remove_claripy_bool_asts converts in the tree h
ConditionsOf(h) ==
    UNION {UNION {
        LET item == h[s][i] IN
        CASE item.ty = "CodeNode" ->
                {item.rc} \cup (IF item.node.k = "ConditionalBreakNode"
                                THEN {item.node.cond} ELSE {})
          [] item.ty = "Raw" ->
                IF item.node.k = "ConditionalBreakNode" THEN {item.node.cond} ELSE {}
          [] item.ty = "ConditionNode" -> {item.cond, item.trc, item.frc}
        : i \in 1..Len(h[s])} : s \in 1..Len(h)} \ {NoneC}

\* the conversion of the And or Or node t is a native expression that holds
\* exactly when all (And) or one (Or) of the conversions of its operands hold
KeepsEveryOperand(mapping, t) ==
    LET native == convert_claripy_bool_ast(mapping, t)
        operand(k) == convert_claripy_bool_ast(mapping, t.args[k])
    IN /\ ~IsError(native)
       /\ \A asg \in SUBSET Atoms :
             NativeHolds(native, asg) <=>
                IF t.op = "And"
                THEN \A k \in 1..Len(t.args) : NativeHolds(operand(k), asg)
                ELSE \E k \in 1..Len(t.args) : NativeHolds(operand(k), asg)

\* C26: the reverse translation keeps every operand: when
\* _remove_claripy_bool_asts converts the conditions of the structured tree,
\* the native expression it returns for an And or Or node of k operands is
\* equivalent to the conjunction or disjunction of the conversions of all k
\* operands
C26_EveryOperandKept ==
    [][(pc = "merged" /\ pc' = "done") =>
         /\ heap' = remove_claripy_bool_asts(condition_mapping, heap)
         /\ \A c \in ConditionsOf(heap) : \A t \in AndOrNodes(c) :
               KeepsEveryOperand(condition_mapping, t)]_vars

\* a tree has been converted in which a child is guarded by the native
\* conjunction of two conditions
C26_ConjunctionConverted ==
    /\ pc = "done"
    /\ \E s \in 1..Len(heap) : \E i \in 1..Len(heap[s]) :
          /\ heap[s][i].ty = "ConditionNode"
          /\ heap[s][i].cond.op = "LogicalAnd"

=============================================================================
